---- MODULE Spec2Model ----
(***************************************************************************)
(* Presence and message-delivery tracking of the chat server (server.js).  *)
(*                                                                         *)
(* Every socket handler is an async function: it runs synchronously up to  *)
(* an `await pool.query(...)`, the Store executes the query at some later  *)
(* moment, and the handler resumes at a still later moment.  A handler in  *)
(* flight is a task: a record holding its locals and the query it awaits   *)
(* (pc).  ready = FALSE: the query is issued and not yet executed by the   *)
(* Store; ready = TRUE: the Store has answered (ok tells how) and the      *)
(* handler has not resumed yet.  The code between two awaits is one step.  *)
(***************************************************************************)
EXTENDS Integers, Sequences, FiniteSets, Bags, TLC

\* Map.get(k) of an absent key (undefined), a NULL column, "no socket".
None == 0

\* The rows of the users table (provisioned by createSampleUsers / register).
Users == {1, 2, 3}

\* The rows of the conversations table; the id is the index.
Conversations == <<[user1_id |-> 1, user2_id |-> 2], [user1_id |-> 2, user2_id |-> 3]>>

ConvIds == DOMAIN Conversations

\* now - lastHeartbeat > HEARTBEAT_TIMEOUT evicts (milliseconds).
HEARTBEAT_TIMEOUT == 30000

\* setInterval(..., 10000): the period of the heartbeat sweep (milliseconds).
SWEEP_INTERVAL == 10000

VARIABLES
  open,              \* io.sockets.sockets: the ids of the sockets now connected
  nextSock,          \* the id the next connecting socket gets
  connectedUsers,    \* Map userId -> socketId (None: absent)
  userSockets,       \* Map socketId -> userId (None: absent)
  userHeartbeats,    \* Map userId -> last heartbeat time, in insertion order
  userTypingStatus,  \* Map userId -> conversationId (None: absent)
  users,             \* Store: users table, userId -> [is_online, last_seen]
  messages,          \* Store: messages table, a sequence; the id is the index
  tasks,             \* the handlers in flight (a bag of task records)
  now,               \* Date.now() / CURRENT_TIMESTAMP, counted from one
                     \* sweep period before the server started
  sweepDue,          \* the setInterval timer has expired and not yet run
  emits,             \* the events the last step emitted
  hist               \* per message, for the record: writes, the delivered
                     \* UPDATEs done; inline / replayed, the message:new
                     \* 'delivered' / message:delivered events its sender's
                     \* socket got; read, whether a connected socket got a
                     \* message:read listing it; offline, whether the
                     \* recipient had no connectedUsers entry when the row
                     \* was inserted

vars == <<open, nextSock, connectedUsers, userSockets, userHeartbeats,
          userTypingStatus, users, messages, tasks, now, sweepDue, emits, hist>>

registry == <<connectedUsers, userSockets, userHeartbeats>>
store == <<users, messages>>

Sockets == 1..(nextSock - 1)

----------------------------------------------------------------------------
(* Tasks *)

NewTask(kind, pc, sock) ==
  [kind |-> kind, pc |-> pc, ready |-> FALSE, ok |-> TRUE, sock |-> sock,
   user |-> None, conv |-> None, msg |-> None, rows |-> <<>>, i |-> 0,
   res |-> None, socketOnline |-> FALSE, online |-> FALSE, state |-> "",
   t0 |-> 0, snap |-> <<>>, owed |-> {}]

Awaiting(t, pc) == t.pc = pc /\ ~t.ready
Answered(t, pc) == t.pc = pc /\ t.ready /\ t.ok
Failed(t) == t.ready /\ ~t.ok

\* The handler issues its next query and suspends.
Issue(t, pc) == [t EXCEPT !.pc = pc, !.ready = FALSE, !.ok = TRUE]

One(t) == SetToBag({t})
Without(t) == tasks (-) One(t)

----------------------------------------------------------------------------
(* Outbound events *)

\* via: "socket" for socket.emit (the handler's own socket), "to" for
\* io.to(socketId).emit, "all" for io.emit.
Ev(ev, via, to, user, conv, msg, ids, status) ==
  [ev |-> ev, via |-> via, to |-> to, user |-> user, conv |-> conv,
   msg |-> msg, ids |-> ids, status |-> status, snap |-> <<>>]

\* An event reaches a socket only while that socket is connected;
\* io.to(undefined) reaches nobody, io.emit every connected socket.
Receives(s, e) == s \in open /\ (e.via = "all" \/ e.to = s)

StatusChange(u, online) ==
  Ev("user_status_change", "all", None, u, None, None, {},
     IF online THEN "online" ELSE "offline")

----------------------------------------------------------------------------
(* userHeartbeats: a JS Map, iterated in insertion order *)

HbPos(h, u) ==
  IF \E p \in DOMAIN h : h[p].user = u
    THEN CHOOSE p \in DOMAIN h : h[p].user = u
    ELSE 0

HbSet(h, u, ts) ==
  IF HbPos(h, u) # 0
    THEN [h EXCEPT ![HbPos(h, u)].ts = ts]
    ELSE Append(h, [user |-> u, ts |-> ts])

HbDelete(h, u) ==
  IF HbPos(h, u) = 0 THEN h
  ELSE [p \in 1..(Len(h) - 1) |-> IF p < HbPos(h, u) THEN h[p] ELSE h[p + 1]]

HbGet(h, u) == IF HbPos(h, u) = 0 THEN None ELSE h[HbPos(h, u)].ts

HbUsers(h) == {h[p].user : p \in DOMAIN h}

\* A live Map iterator keeps its place when an entry before it is deleted:
\* the cursor i of a sweep counts the live entries it has passed.
CursorAfterDelete(t, h, u) ==
  IF t.kind = "sweep" /\ HbPos(h, u) # 0 /\ HbPos(h, u) <= t.i
    THEN [t EXCEPT !.i = t.i - 1]
    ELSE t

TasksAfterDelete(B, h, u) ==
  LET S == BagToSet(B)
      T == {CursorAfterDelete(x, h, u) : x \in S}
  IN [y \in T |->
        LET from == {x \in S : CursorAfterDelete(x, h, u) = y}
            RECURSIVE Sum(_)
            Sum(R) == IF R = {} THEN 0
                      ELSE LET x == CHOOSE z \in R : TRUE IN B[x] + Sum(R \ {x})
        IN Sum(from)]

----------------------------------------------------------------------------
(* Store helpers *)

OtherUser(c, u) ==
  IF Conversations[c].user1_id = u THEN Conversations[c].user2_id
  ELSE Conversations[c].user1_id

Participant(c, u) == u = Conversations[c].user1_id \/ u = Conversations[c].user2_id

ConvsOf(u) == {c \in ConvIds : Participant(c, u)}

\* A set of numbers as the ascending sequence a query returns its rows in.
RECURSIVE Ascending(_)
Ascending(S) ==
  IF S = {} THEN <<>>
  ELSE LET m == CHOOSE x \in S : \A y \in S : x <= y
       IN <<m>> \o Ascending(S \ {m})

DeliveryState(m) ==
  IF m.is_read THEN "read" ELSE IF m.is_delivered THEN "delivered" ELSE "sent"

----------------------------------------------------------------------------
Init ==
  /\ open = {}
  /\ nextSock = 1
  /\ connectedUsers = [u \in Users |-> None]
  /\ userSockets = <<>>
  /\ userHeartbeats = <<>>
  /\ userTypingStatus = [u \in Users |-> None]
  /\ users = [u \in Users |-> [is_online |-> FALSE, last_seen |-> 0]]
  /\ messages = <<>>
  /\ tasks = EmptyBag
  /\ now = SWEEP_INTERVAL
  /\ sweepDue = FALSE
  /\ emits = {}
  /\ hist = <<>>

----------------------------------------------------------------------------
(* Connections *)

\* io.on('connection'): a new socket, not yet authenticated.
Connect ==
  /\ open' = open \cup {nextSock}
  /\ nextSock' = nextSock + 1
  /\ userSockets' = Append(userSockets, None)
  /\ emits' = {}
  /\ UNCHANGED <<connectedUsers, userHeartbeats, userTypingStatus, users,
                 messages, tasks, now, sweepDue, hist>>

\* The Store fails the query a handler awaits.
DbFail(t) ==
  /\ t \in BagToSet(tasks)
  /\ ~t.ready
  /\ tasks' = Without(t) (+) One([t EXCEPT !.ready = TRUE, !.ok = FALSE])
  /\ emits' = {}
  /\ UNCHANGED <<open, nextSock, registry, userTypingStatus, store, now,
                 sweepDue, hist>>

\* A rejected await in a handler that has no try/catch around it
\* (heartbeat, app_state_change, typing, disconnect): the handler ends there.
Unhandled(t) ==
  /\ t \in BagToSet(tasks)
  /\ Failed(t)
  /\ IF t.kind = "app" THEN t.pc \in {"online", "offline"}
     ELSE t.kind \in {"hb", "disc", "temit"}
  /\ tasks' = Without(t)
  /\ emits' = {}
  /\ UNCHANGED <<open, nextSock, registry, userTypingStatus, store, now,
                 sweepDue, hist>>

\* A variant of AuthenticateInvalid that registers the socket for user 1
\* before the token is rejected.
AuthenticateInvalid_Registers(s) ==
  /\ s \in open
  /\ connectedUsers' = [connectedUsers EXCEPT ![1] = s]
  /\ userSockets' = [userSockets EXCEPT ![s] = 1]
  /\ emits' = {Ev("authentication_error", "socket", s, None, None, None, {}, "")}
  /\ UNCHANGED <<open, nextSock, userHeartbeats, userTypingStatus, store, tasks,
                 now, sweepDue, hist>>

\* socket.on('authenticate') with a token jwt.verify rejects.
AuthenticateInvalid(s) ==
  /\ s \in open
  /\ emits' = {Ev("authentication_error", "socket", s, None, None, None, {}, "")}
  /\ UNCHANGED <<open, nextSock, registry, userTypingStatus, store, tasks,
                 now, sweepDue, hist>>

\* For the record: the messages waiting for u that were inserted while u had
\* no registered connection.
OwedTo(u) ==
  {m \in DOMAIN messages :
     /\ Participant(messages[m].conversation_id, u)
     /\ messages[m].sender_id # u
     /\ ~messages[m].is_delivered
     /\ hist[m].offline}

\* socket.on('authenticate') with a valid token of user u, up to its first
\* await.  oldSocket.disconnect() runs the old socket's disconnect handler at
\* once; it finds no userSockets entry (just deleted) and does nothing.
Authenticate(s, u) ==
  /\ s \in open
  /\ LET existingSocketId == connectedUsers[u]
         cleanup == existingSocketId # None /\ existingSocketId # s
     IN /\ userSockets' =
             [(IF cleanup THEN [userSockets EXCEPT ![existingSocketId] = None]
               ELSE userSockets) EXCEPT ![s] = u]
        /\ open' = IF cleanup THEN open \ {existingSocketId} ELSE open
  /\ connectedUsers' = [connectedUsers EXCEPT ![u] = s]
  /\ userHeartbeats' = HbSet(userHeartbeats, u, now)
  /\ tasks' = tasks (+) One([NewTask("auth", "online", s)
                               EXCEPT !.user = u, !.owed = OwedTo(u)])
  /\ emits' = {}
  /\ UNCHANGED <<nextSock, userTypingStatus, store, now, sweepDue, hist>>

\* UPDATE users SET is_online = true, last_seen = CURRENT_TIMESTAMP.
DbSetOnline(t) ==
  /\ t \in BagToSet(tasks)
  /\ Awaiting(t, "online")
  /\ users' = [users EXCEPT ![t.user] = [is_online |-> TRUE, last_seen |-> now]]
  /\ tasks' = Without(t) (+) One([t EXCEPT !.ready = TRUE])
  /\ emits' = {}
  /\ UNCHANGED <<open, nextSock, registry, userTypingStatus, messages, now,
                 sweepDue, hist>>

\* catch of the authenticate handler: only its own UPDATE can land there.
AuthenticateFailed(t) ==
  /\ t \in BagToSet(tasks)
  /\ t.kind = "auth" /\ t.pc = "online" /\ Failed(t)
  /\ tasks' = Without(t)
  /\ emits' = {Ev("authentication_error", "socket", t.sock, None, None, None, {}, "")}
  /\ UNCHANGED <<open, nextSock, registry, userTypingStatus, store, now,
                 sweepDue, hist>>

----------------------------------------------------------------------------
(* deliverPendingMessages(userId), called by authenticate and by
   app_state_change(active) *)

\* The handler's own UPDATE is done: deliverPendingMessages issues its SELECT.
ReplayStart(t) ==
  /\ t \in BagToSet(tasks)
  /\ t.kind \in {"auth", "app"}
  /\ Answered(t, "online")
  /\ tasks' = Without(t) (+) One(Issue(t, "pending"))
  /\ emits' = {}
  /\ UNCHANGED <<open, nextSock, registry, userTypingStatus, store, now,
                 sweepDue, hist>>

\* A variant of PendingFor that selects the user's own messages instead of
\* those sent to it.
PendingFor_OwnMessages(u) ==
  {m \in DOMAIN messages :
     /\ Participant(messages[m].conversation_id, u)
     /\ messages[m].sender_id = u
     /\ ~messages[m].is_delivered}

\* SELECT m.* ... WHERE (c.user1_id = $1 OR c.user2_id = $1)
\*   AND m.sender_id != $1 AND m.is_delivered = false
PendingFor(u) ==
  {m \in DOMAIN messages :
     /\ Participant(messages[m].conversation_id, u)
     /\ messages[m].sender_id # u
     /\ ~messages[m].is_delivered}

DbSelectPending(t) ==
  /\ t \in BagToSet(tasks)
  /\ Awaiting(t, "pending")
  /\ tasks' = Without(t) (+)
       One([t EXCEPT !.ready = TRUE, !.rows = Ascending(PendingFor(t.user))])
  /\ emits' = {}
  /\ UNCHANGED <<open, nextSock, registry, userTypingStatus, store, now,
                 sweepDue, hist>>

\* sendUpdatedConversationData(userId) begins: the conversations query.
AfterReplay(t) == [Issue(t, "convs") EXCEPT !.rows = <<>>, !.i = 0]

\* The rows are in: the loop issues the UPDATE of the first one, or there
\* is none and the caller goes on.
ReplayLoop(t) ==
  /\ t \in BagToSet(tasks)
  /\ t.kind \in {"auth", "app"}
  /\ Answered(t, "pending")
  /\ tasks' = Without(t) (+)
       One(IF t.rows = <<>> THEN AfterReplay(t)
           ELSE [Issue(t, "deliver") EXCEPT !.i = 1])
  /\ emits' = {}
  /\ UNCHANGED <<open, nextSock, registry, userTypingStatus, store, now,
                 sweepDue, hist>>

\* The message whose delivered write task t awaits.
DeliverTarget(t) == IF t.kind = "send" THEN t.msg ELSE t.rows[t.i]

\* A variant of MarkDelivered in which the UPDATE changes no row.
MarkDelivered_NoRow(m) == m

\* UPDATE messages SET is_delivered = true, delivered_at = CURRENT_TIMESTAMP
\*   WHERE id = $1
MarkDelivered(m) == [m EXCEPT !.is_delivered = TRUE, !.delivered_at = now]

DbMarkDelivered(t) ==
  /\ t \in BagToSet(tasks)
  /\ Awaiting(t, "deliver")
  /\ messages' = [messages EXCEPT ![DeliverTarget(t)] = MarkDelivered(@)]
  /\ hist' = [hist EXCEPT ![DeliverTarget(t)].writes = @ + 1]
  /\ tasks' = Without(t) (+) One([t EXCEPT !.ready = TRUE])
  /\ emits' = {}
  /\ UNCHANGED <<open, nextSock, registry, userTypingStatus, users, now,
                 sweepDue>>

\* The delivery notifications among the events es that reach the socket
\* they are sent to, counted on the message they are about.
Notified(h, es) ==
  [m \in DOMAIN h |->
     [h[m] EXCEPT
        !.replayed = @ + Cardinality({e \in es :
           e.msg = m /\ e.to \in open /\ e.ev = "message:delivered"}),
        !.inline = @ + Cardinality({e \in es :
           /\ e.msg = m /\ e.to \in open /\ e.ev = "message:new"
           /\ e.status = "delivered" /\ e.via = "socket"})]]

\* After one row's UPDATE: notify the sender if connectedUsers has a socket
\* for it, then the next row's UPDATE, or the loop is over.
ReplayNotice(t) ==
  LET senderSocketId == connectedUsers[messages[t.rows[t.i]].sender_id]
  IN IF senderSocketId = None THEN {}
     ELSE {Ev("message:delivered", "to", senderSocketId, None,
              messages[t.rows[t.i]].conversation_id, t.rows[t.i], {}, "")}

ReplayNotify(t) ==
  /\ t \in BagToSet(tasks)
  /\ t.kind \in {"auth", "app"}
  /\ Answered(t, "deliver")
  /\ emits' = ReplayNotice(t)
  /\ hist' = Notified(hist, ReplayNotice(t))
  /\ tasks' = Without(t) (+)
       One(IF t.i < Len(t.rows) THEN [Issue(t, "deliver") EXCEPT !.i = t.i + 1]
           ELSE AfterReplay(t))
  /\ UNCHANGED <<open, nextSock, registry, userTypingStatus, store, now,
                 sweepDue>>

\* catch of deliverPendingMessages: the pass ends, the caller goes on.
ReplayFailed(t) ==
  /\ t \in BagToSet(tasks)
  /\ t.kind \in {"auth", "app"}
  /\ t.pc \in {"pending", "deliver"}
  /\ Failed(t)
  /\ tasks' = Without(t) (+) One(AfterReplay(t))
  /\ emits' = {}
  /\ UNCHANGED <<open, nextSock, registry, userTypingStatus, store, now,
                 sweepDue, hist>>

----------------------------------------------------------------------------
(* sendUpdatedConversationData(userId), then the end of the handler *)

\* supabase.from('conversations').select(...).or(user1_id.eq / user2_id.eq)
DbSelectConversationsOf(t) ==
  /\ t \in BagToSet(tasks)
  /\ Awaiting(t, "convs")
  /\ tasks' = Without(t) (+)
       One([t EXCEPT !.ready = TRUE, !.rows = Ascending(ConvsOf(t.user))])
  /\ emits' = {}
  /\ UNCHANGED <<open, nextSock, registry, userTypingStatus, store, now,
                 sweepDue, hist>>

\* supabase.from('users').select(...).eq('id', otherUserId).single(): one
\* entry of the snapshot, built from the row as it is now.
DbSelectUser(t) ==
  /\ t \in BagToSet(tasks)
  /\ Awaiting(t, "user")
  /\ tasks' = Without(t) (+)
       One([t EXCEPT !.ready = TRUE,
                     !.snap = Append(@,
                        [conversation_id |-> t.rows[t.i],
                         other_user_id |-> OtherUser(t.rows[t.i], t.user),
                         other_user_online |->
                           users[OtherUser(t.rows[t.i], t.user)].is_online])])
  /\ emits' = {}
  /\ UNCHANGED <<open, nextSock, registry, userTypingStatus, store, now,
                 sweepDue, hist>>

\* What the handler emits once sendUpdatedConversationData has returned:
\* io.emit('user_status_change'), and socket.emit('authenticated') in
\* authenticate.
Epilogue(t) ==
  {StatusChange(t.user, TRUE)} \cup
  (IF t.kind = "auth"
     THEN {Ev("authenticated", "socket", t.sock, None, None, None, {}, "")}
     ELSE {})

\* A variant of Snapshot that answers on the socket the handler runs for.
Snapshot_ToOwnSocket(t) ==
  {[Ev("conversations_updated", "to", t.sock, t.user, None, None, {}, "")
      EXCEPT !.snap = t.snap]}

\* The snapshot goes to the socket connectedUsers holds for the user now.
Snapshot(t) ==
  IF connectedUsers[t.user] = None THEN {}
  ELSE {[Ev("conversations_updated", "to", connectedUsers[t.user], t.user,
            None, None, {}, "") EXCEPT !.snap = t.snap]}

\* The conversations query failed (convError, or the catch) or found no
\* conversation: nothing is sent; else the first user query is issued.
SnapshotLoop(t) ==
  /\ t \in BagToSet(tasks)
  /\ t.kind \in {"auth", "app"}
  /\ t.pc = "convs" /\ t.ready
  /\ IF t.ok /\ t.rows # <<>>
       THEN /\ tasks' = Without(t) (+) One([Issue(t, "user") EXCEPT !.i = 1])
            /\ emits' = {}
       ELSE /\ tasks' = Without(t)
            /\ emits' = Epilogue(t)
  /\ UNCHANGED <<open, nextSock, registry, userTypingStatus, store, now,
                 sweepDue, hist>>

\* One user query is answered (a userError skips the entry): the next one,
\* or the snapshot is sent and the handler ends.
SnapshotNext(t) ==
  /\ t \in BagToSet(tasks)
  /\ t.kind \in {"auth", "app"}
  /\ t.pc = "user" /\ t.ready
  /\ IF t.i < Len(t.rows)
       THEN /\ tasks' = Without(t) (+) One([Issue(t, "user") EXCEPT !.i = t.i + 1])
            /\ emits' = {}
       ELSE /\ tasks' = Without(t)
            /\ emits' = Snapshot(t) \cup Epilogue(t)
  /\ UNCHANGED <<open, nextSock, registry, userTypingStatus, store, now,
                 sweepDue, hist>>

----------------------------------------------------------------------------
(* disconnect, heartbeat, app_state_change *)

\* The socket closes (the client leaves, or the transport drops): the
\* 'disconnect' handler runs to its first await if the socket is registered.
Disconnect(s) ==
  /\ s \in open
  /\ open' = open \ {s}
  /\ tasks' = IF userSockets[s] = None THEN tasks
              ELSE tasks (+) One([NewTask("disc", "offline", s)
                                    EXCEPT !.user = userSockets[s]])
  /\ emits' = {}
  /\ UNCHANGED <<nextSock, registry, userTypingStatus, store, now, sweepDue,
                 hist>>

\* UPDATE users SET is_online = false, last_seen = CURRENT_TIMESTAMP.
DbSetOffline(t) ==
  /\ t \in BagToSet(tasks)
  /\ Awaiting(t, "offline")
  /\ users' = [users EXCEPT ![t.user] = [is_online |-> FALSE, last_seen |-> now]]
  /\ tasks' = Without(t) (+) One([t EXCEPT !.ready = TRUE])
  /\ emits' = {}
  /\ UNCHANGED <<open, nextSock, registry, userTypingStatus, messages, now,
                 sweepDue, hist>>

\* emitTypingStatusToRelevantUsers(userId, conversationId, isTyping) up to
\* its first await: the query for the users sharing a conversation.
TypingFanout(sock, u, c, isTyping) ==
  [NewTask("typing", "peers", sock)
     EXCEPT !.user = u, !.conv = c, !.state = IF isTyping THEN "start" ELSE "stop"]

\* The disconnect handler after its UPDATE: both maps and the heartbeat
\* entry are deleted under the userId read before the await; a typing entry
\* is deleted and its stop fan-out started (not awaited).
DisconnectCleanup(t) ==
  /\ t \in BagToSet(tasks)
  /\ t.kind = "disc"
  /\ Answered(t, "offline")
  /\ connectedUsers' = [connectedUsers EXCEPT ![t.user] = None]
  /\ userSockets' = [userSockets EXCEPT ![t.sock] = None]
  /\ userHeartbeats' = HbDelete(userHeartbeats, t.user)
  /\ userTypingStatus' = [userTypingStatus EXCEPT ![t.user] = None]
  /\ tasks' = TasksAfterDelete(Without(t), userHeartbeats, t.user) (+)
       (IF userTypingStatus[t.user] = None THEN EmptyBag
        ELSE One(TypingFanout(t.sock, t.user, userTypingStatus[t.user], FALSE)))
  /\ emits' = {StatusChange(t.user, FALSE)}
  /\ UNCHANGED <<open, nextSock, store, now, sweepDue, hist>>

\* A variant of Heartbeat without the userSockets test: an unregistered
\* socket counts as user 1's.
Heartbeat_Unchecked(s) ==
  /\ s \in open
  /\ LET userId == IF userSockets[s] = None THEN 1 ELSE userSockets[s]
     IN /\ userHeartbeats' = HbSet(userHeartbeats, userId, now)
        /\ tasks' = tasks (+) One([NewTask("hb", "touch", s) EXCEPT !.user = userId])
  /\ emits' = {}
  /\ UNCHANGED <<open, nextSock, connectedUsers, userSockets,
                 userTypingStatus, store, now, sweepDue, hist>>

\* socket.on('heartbeat') up to its await; nothing follows the await.
Heartbeat(s) ==
  /\ s \in open
  /\ IF userSockets[s] = None
       THEN UNCHANGED <<userHeartbeats, tasks>>
       ELSE /\ userHeartbeats' = HbSet(userHeartbeats, userSockets[s], now)
            /\ tasks' = tasks (+) One([NewTask("hb", "touch", s)
                                         EXCEPT !.user = userSockets[s]])
  /\ emits' = {}
  /\ UNCHANGED <<open, nextSock, connectedUsers, userSockets,
                 userTypingStatus, store, now, sweepDue, hist>>

\* UPDATE users SET last_seen = CURRENT_TIMESTAMP; the handler ends.
DbTouchLastSeen(t) ==
  /\ t \in BagToSet(tasks)
  /\ Awaiting(t, "touch")
  /\ users' = [users EXCEPT ![t.user].last_seen = now]
  /\ tasks' = Without(t)
  /\ emits' = {}
  /\ UNCHANGED <<open, nextSock, registry, userTypingStatus, messages, now,
                 sweepDue, hist>>

\* socket.on('app_state_change') up to its first await; any other state
\* value, or an unregistered socket, does nothing.
AppStateChange(s, state) ==
  /\ s \in open
  /\ tasks' =
       IF userSockets[s] = None \/ state \notin {"active", "background", "inactive"}
         THEN tasks
         ELSE tasks (+) One([NewTask("app", IF state = "active" THEN "online"
                                            ELSE "offline", s)
                               EXCEPT !.user = userSockets[s], !.state = state])
  /\ emits' = {}
  /\ UNCHANGED <<open, nextSock, registry, userTypingStatus, store, now,
                 sweepDue, hist>>

\* A variant of AppWentOffline that also takes the user out of the registry.
AppWentOffline_Unregisters(t) ==
  /\ t \in BagToSet(tasks)
  /\ t.kind = "app"
  /\ Answered(t, "offline")
  /\ connectedUsers' = [connectedUsers EXCEPT ![t.user] = None]
  /\ userSockets' = [userSockets EXCEPT ![t.sock] = None]
  /\ userHeartbeats' = HbDelete(userHeartbeats, t.user)
  /\ tasks' = Without(t)
  /\ emits' = {StatusChange(t.user, FALSE)}
  /\ UNCHANGED <<open, nextSock, userTypingStatus, store, now, sweepDue, hist>>

\* background / inactive: after the UPDATE, io.emit and the handler ends.
AppWentOffline(t) ==
  /\ t \in BagToSet(tasks)
  /\ t.kind = "app"
  /\ Answered(t, "offline")
  /\ tasks' = Without(t)
  /\ emits' = {StatusChange(t.user, FALSE)}
  /\ UNCHANGED <<open, nextSock, registry, userTypingStatus, store, now,
                 sweepDue, hist>>

----------------------------------------------------------------------------
(* startHeartbeatCleanup: the sweep *)

\* The for loop over userHeartbeats.entries() from the cursor on: entries
\* within the timeout are passed; at the first stale one the UPDATE is
\* issued; with none left the run ends.
SweepNext(t, h) ==
  LET stale == {p \in DOMAIN h :
                  p > t.i /\ t.t0 - h[p].ts > HEARTBEAT_TIMEOUT}
  IN IF stale = {} THEN EmptyBag
     ELSE LET p == CHOOSE q \in stale : \A r \in stale : q <= r
          IN One([Issue(t, "offline") EXCEPT !.i = p, !.user = h[p].user])

\* The timer fires: const now = Date.now(), then the loop.
SweepStart ==
  /\ sweepDue
  /\ sweepDue' = FALSE
  /\ tasks' = tasks (+)
       SweepNext([NewTask("sweep", "scan", None) EXCEPT !.t0 = now],
                 userHeartbeats)
  /\ emits' = {}
  /\ UNCHANGED <<open, nextSock, registry, userTypingStatus, store, now, hist>>

\* After the UPDATE of a stale user: the socket id is read now, all three
\* entries are deleted, the change is broadcast, and the loop goes on.
SweepEvict(t) ==
  /\ t \in BagToSet(tasks)
  /\ t.kind = "sweep"
  /\ Answered(t, "offline")
  /\ connectedUsers' = [connectedUsers EXCEPT ![t.user] = None]
  /\ userSockets' = IF connectedUsers[t.user] = None THEN userSockets
                    ELSE [userSockets EXCEPT ![connectedUsers[t.user]] = None]
  /\ userHeartbeats' = HbDelete(userHeartbeats, t.user)
  /\ tasks' = TasksAfterDelete(Without(t), userHeartbeats, t.user) (+)
       SweepNext(CursorAfterDelete(t, userHeartbeats, t.user),
                 HbDelete(userHeartbeats, t.user))
  /\ emits' = {StatusChange(t.user, FALSE)}
  /\ UNCHANGED <<open, nextSock, userTypingStatus, store, now, sweepDue, hist>>

\* catch of the sweep: the run ends at the failed UPDATE.
SweepFailed(t) ==
  /\ t \in BagToSet(tasks)
  /\ t.kind = "sweep"
  /\ Failed(t)
  /\ tasks' = Without(t)
  /\ emits' = {}
  /\ UNCHANGED <<open, nextSock, registry, userTypingStatus, store, now,
                 sweepDue, hist>>

\* Time passes by d; the timer expires at each multiple of the interval and
\* its callback runs before the clock moves on.
Tick(d) ==
  /\ ~sweepDue
  /\ now' = now + d
  /\ sweepDue' = ((now + d) % SWEEP_INTERVAL = 0)
  /\ emits' = {}
  /\ UNCHANGED <<open, nextSock, registry, userTypingStatus, store, tasks, hist>>

----------------------------------------------------------------------------
(* message:send *)

\* socket.on('message:send') up to its first await, the INSERT.
SendMessage(s, c, senderId) ==
  /\ s \in open
  /\ tasks' = tasks (+) One([NewTask("send", "insert", s)
                               EXCEPT !.conv = c, !.user = senderId])
  /\ emits' = {}
  /\ UNCHANGED <<open, nextSock, registry, userTypingStatus, store, now,
                 sweepDue, hist>>

\* INSERT INTO messages (conversation_id, sender_id, content) ... RETURNING *
\* (both ids are foreign keys: the row must exist).
DbInsertMessage(t) ==
  /\ t \in BagToSet(tasks)
  /\ Awaiting(t, "insert")
  /\ t.conv \in ConvIds /\ t.user \in Users
  /\ messages' = Append(messages,
       [conversation_id |-> t.conv, sender_id |-> t.user,
        is_delivered |-> FALSE, is_read |-> FALSE,
        delivered_at |-> None, read_at |-> None])
  /\ hist' = Append(hist,
       [writes |-> 0, inline |-> 0, replayed |-> 0, read |-> FALSE,
        offline |-> connectedUsers[OtherUser(t.conv, t.user)] = None])
  /\ tasks' = Without(t) (+)
       One([t EXCEPT !.ready = TRUE, !.msg = Len(messages) + 1])
  /\ emits' = {}
  /\ UNCHANGED <<open, nextSock, registry, userTypingStatus, users, now,
                 sweepDue>>

\* After the INSERT: the conversation's participants are looked up.
SendLookup(t) ==
  /\ t \in BagToSet(tasks)
  /\ t.kind = "send"
  /\ Answered(t, "insert")
  /\ tasks' = Without(t) (+) One(Issue(t, "conv"))
  /\ emits' = {}
  /\ UNCHANGED <<open, nextSock, registry, userTypingStatus, store, now,
                 sweepDue, hist>>

\* SELECT user1_id, user2_id FROM conversations WHERE id = $1
DbSelectConversation(t) ==
  /\ t \in BagToSet(tasks)
  /\ Awaiting(t, "conv")
  /\ tasks' = Without(t) (+) One([t EXCEPT !.ready = TRUE])
  /\ emits' = {}
  /\ UNCHANGED <<open, nextSock, registry, userTypingStatus, store, now,
                 sweepDue, hist>>

\* otherUserId and socketOnline = connectedUsers.has(otherUserId) are
\* computed (socketOnline is only logged) and the Store is asked for the
\* other user's is_online.
SendCheckOnline(t) ==
  /\ t \in BagToSet(tasks)
  /\ t.kind = "send"
  /\ Answered(t, "conv")
  /\ tasks' = Without(t) (+)
       One([Issue(t, "isonline") EXCEPT
              !.socketOnline = connectedUsers[OtherUser(t.conv, t.user)] # None])
  /\ emits' = {}
  /\ UNCHANGED <<open, nextSock, registry, userTypingStatus, store, now,
                 sweepDue, hist>>

\* SELECT is_online FROM users WHERE id = $1
DbSelectOnline(t) ==
  /\ t \in BagToSet(tasks)
  /\ Awaiting(t, "isonline")
  /\ tasks' = Without(t) (+)
       One([t EXCEPT !.ready = TRUE,
                     !.online = users[OtherUser(t.conv, t.user)].is_online])
  /\ emits' = {}
  /\ UNCHANGED <<open, nextSock, registry, userTypingStatus, store, now,
                 sweepDue, hist>>

MessageNew(t, via, to, status) ==
  Ev("message:new", via, to, t.user, t.conv, t.msg, {}, status)

\* if (otherUserOnline): the delivered UPDATE is issued; else the sender
\* alone gets message:new with 'sent' and the handler ends.
SendDecide(t) ==
  /\ t \in BagToSet(tasks)
  /\ t.kind = "send"
  /\ Answered(t, "isonline")
  /\ IF t.online
       THEN /\ tasks' = Without(t) (+) One(Issue(t, "deliver"))
            /\ emits' = {}
       ELSE /\ tasks' = Without(t)
            /\ emits' = {MessageNew(t, "socket", t.sock, "sent")}
  /\ UNCHANGED <<open, nextSock, registry, userTypingStatus, store, now,
                 sweepDue, hist>>

\* After the delivered UPDATE: the row is read back.
SendRefetch(t) ==
  /\ t \in BagToSet(tasks)
  /\ t.kind = "send"
  /\ Answered(t, "deliver")
  /\ tasks' = Without(t) (+) One(Issue(t, "refetch"))
  /\ emits' = {}
  /\ UNCHANGED <<open, nextSock, registry, userTypingStatus, store, now,
                 sweepDue, hist>>

\* SELECT * FROM messages WHERE id = $1
DbRefetchMessage(t) ==
  /\ t \in BagToSet(tasks)
  /\ Awaiting(t, "refetch")
  /\ tasks' = Without(t) (+)
       One([t EXCEPT !.ready = TRUE, !.snap = <<messages[t.msg]>>])
  /\ emits' = {}
  /\ UNCHANGED <<open, nextSock, registry, userTypingStatus, store, now,
                 sweepDue, hist>>

\* A variant of SendNotice that leaves out the recipient's copy.
SendNotice_SenderOnly(t) ==
  {MessageNew(t, "socket", t.sock, "delivered")}

\* message:new with 'delivered' to the sending socket and to the socket
\* connectedUsers holds for the other user at this moment.
SendNotice(t) ==
  {MessageNew(t, "socket", t.sock, "delivered"),
   MessageNew(t, "to", connectedUsers[OtherUser(t.conv, t.user)], "delivered")}

SendNotify(t) ==
  /\ t \in BagToSet(tasks)
  /\ t.kind = "send"
  /\ Answered(t, "refetch")
  /\ tasks' = Without(t)
  /\ emits' = SendNotice(t)
  /\ hist' = Notified(hist, SendNotice(t))
  /\ UNCHANGED <<open, nextSock, registry, userTypingStatus, store, now,
                 sweepDue>>

\* A variant of SendFailed that only logs the error.
SendFailed_Silent(t) ==
  /\ t \in BagToSet(tasks)
  /\ t.kind = "send"
  /\ Failed(t)
  /\ tasks' = Without(t)
  /\ emits' = {}
  /\ UNCHANGED <<open, nextSock, registry, userTypingStatus, store, now,
                 sweepDue, hist>>

\* catch of message:send: any failed query ends the handler here.
SendFailed(t) ==
  /\ t \in BagToSet(tasks)
  /\ t.kind = "send"
  /\ Failed(t)
  /\ tasks' = Without(t)
  /\ emits' = {Ev("message:error", "socket", t.sock, None, None, None, {}, "")}
  /\ UNCHANGED <<open, nextSock, registry, userTypingStatus, store, now,
                 sweepDue, hist>>

----------------------------------------------------------------------------
(* message:read *)

\* socket.on('message:read') up to its first await, the UPDATE.
ReadMessages(s, c, userId) ==
  /\ s \in open
  /\ tasks' = tasks (+) One([NewTask("read", "markread", s)
                               EXCEPT !.conv = c, !.user = userId])
  /\ emits' = {}
  /\ UNCHANGED <<open, nextSock, registry, userTypingStatus, store, now,
                 sweepDue, hist>>

\* A variant of Unread that leaves out the sender_id != $2 condition.
Unread_AnySender(c, u) ==
  {m \in DOMAIN messages :
     /\ messages[m].conversation_id = c
     /\ ~messages[m].is_read}

\* UPDATE messages SET is_read = true, read_at = CURRENT_TIMESTAMP
\*   WHERE conversation_id = $1 AND sender_id != $2 AND is_read = false
\*   RETURNING id
Unread(c, u) ==
  {m \in DOMAIN messages :
     /\ messages[m].conversation_id = c
     /\ messages[m].sender_id # u
     /\ ~messages[m].is_read}

\* A variant of DbMarkRead whose UPDATE also resets is_delivered.
DbMarkRead_ResetsDelivered(t) ==
  /\ t \in BagToSet(tasks)
  /\ Awaiting(t, "markread")
  /\ messages' = [m \in DOMAIN messages |->
                    IF m \in Unread(t.conv, t.user)
                      THEN [messages[m] EXCEPT !.is_read = TRUE, !.read_at = now,
                                               !.is_delivered = FALSE]
                      ELSE messages[m]]
  /\ tasks' = Without(t) (+)
       One([t EXCEPT !.ready = TRUE, !.rows = Ascending(Unread(t.conv, t.user))])
  /\ emits' = {}
  /\ UNCHANGED <<open, nextSock, registry, userTypingStatus, users, now,
                 sweepDue, hist>>

DbMarkRead(t) ==
  /\ t \in BagToSet(tasks)
  /\ Awaiting(t, "markread")
  /\ messages' = [m \in DOMAIN messages |->
                    IF m \in Unread(t.conv, t.user)
                      THEN [messages[m] EXCEPT !.is_read = TRUE, !.read_at = now]
                      ELSE messages[m]]
  /\ tasks' = Without(t) (+)
       One([t EXCEPT !.ready = TRUE, !.rows = Ascending(Unread(t.conv, t.user))])
  /\ emits' = {}
  /\ UNCHANGED <<open, nextSock, registry, userTypingStatus, users, now,
                 sweepDue, hist>>

\* io.emit('message:read', { conversationId, userId })
ReadBroadcast(t) == Ev("message:read", "all", None, t.user, t.conv, None, {}, "")

\* Rows were returned: the conversation is looked up; none: only the
\* broadcast, and the handler ends.
ReadLookup(t) ==
  /\ t \in BagToSet(tasks)
  /\ t.kind = "read"
  /\ Answered(t, "markread")
  /\ IF t.rows # <<>>
       THEN /\ tasks' = Without(t) (+) One(Issue(t, "conv"))
            /\ emits' = {}
       ELSE /\ tasks' = Without(t)
            /\ emits' = {ReadBroadcast(t)}
  /\ UNCHANGED <<open, nextSock, registry, userTypingStatus, store, now,
                 sweepDue, hist>>

Range(q) == {q[k] : k \in DOMAIN q}

\* message:read { conversationId, messageIds, readBy } to the other user's
\* socket if connectedUsers holds one, then the broadcast.
ReadNotice(t) ==
  (IF connectedUsers[OtherUser(t.conv, t.user)] = None THEN {}
   ELSE {Ev("message:read", "to", connectedUsers[OtherUser(t.conv, t.user)],
            t.user, t.conv, None, Range(t.rows), "")})
  \cup {ReadBroadcast(t)}

\* The messages listed in a targeted message:read among the events es that
\* reaches the socket it is sent to.
ReceiptFor(h, es) ==
  [m \in DOMAIN h |->
     [h[m] EXCEPT
        !.read = @ \/ \E e \in es :
           e.ev = "message:read" /\ e.via = "to" /\ e.to \in open /\ m \in e.ids]]

ReadNotify(t) ==
  /\ t \in BagToSet(tasks)
  /\ t.kind = "read"
  /\ Answered(t, "conv")
  /\ tasks' = Without(t)
  /\ emits' = ReadNotice(t)
  /\ hist' = ReceiptFor(hist, ReadNotice(t))
  /\ UNCHANGED <<open, nextSock, registry, userTypingStatus, store, now,
                 sweepDue>>

\* catch of message:read: logged, nothing is emitted.
ReadFailed(t) ==
  /\ t \in BagToSet(tasks)
  /\ t.kind = "read"
  /\ Failed(t)
  /\ tasks' = Without(t)
  /\ emits' = {}
  /\ UNCHANGED <<open, nextSock, registry, userTypingStatus, store, now,
                 sweepDue, hist>>

----------------------------------------------------------------------------
(* typing:start, typing:stop, emitTypingStatusToRelevantUsers *)

\* A variant of TypingStart that keeps an entry the user already has.
TypingStart_KeepFirst(s, c, userId) ==
  /\ s \in open
  /\ userTypingStatus' =
       IF userTypingStatus[userId] # None THEN userTypingStatus
       ELSE [userTypingStatus EXCEPT ![userId] = c]
  /\ tasks' = tasks (+) One(TypingFanout(s, userId, c, TRUE))
  /\ emits' = {}
  /\ UNCHANGED <<open, nextSock, registry, store, now, sweepDue, hist>>

\* socket.on('typing:start') up to its await.  socket.to(conversationId)
\* names a room no socket ever joins (sockets join only their own id and
\* user_<id>), so that emit reaches nobody.
TypingStart(s, c, userId) ==
  /\ s \in open
  /\ userTypingStatus' = [userTypingStatus EXCEPT ![userId] = c]
  /\ tasks' = tasks (+) One(TypingFanout(s, userId, c, TRUE))
  /\ emits' = {}
  /\ UNCHANGED <<open, nextSock, registry, store, now, sweepDue, hist>>

\* socket.on('typing:stop') up to its await.
TypingStop(s, c, userId) ==
  /\ s \in open
  /\ userTypingStatus' = [userTypingStatus EXCEPT ![userId] = None]
  /\ tasks' = tasks (+) One(TypingFanout(s, userId, c, FALSE))
  /\ emits' = {}
  /\ UNCHANGED <<open, nextSock, registry, store, now, sweepDue, hist>>

\* SELECT CASE ... END AS other_user_id FROM conversations c
\*   WHERE c.user1_id = $1 OR c.user2_id = $1
DbSelectPeers(t) ==
  /\ t \in BagToSet(tasks)
  /\ Awaiting(t, "peers")
  /\ tasks' = Without(t) (+)
       One([t EXCEPT !.ready = TRUE,
                     !.rows = [k \in DOMAIN Ascending(ConvsOf(t.user)) |->
                                 OtherUser(Ascending(ConvsOf(t.user))[k], t.user)]])
  /\ emits' = {}
  /\ UNCHANGED <<open, nextSock, registry, userTypingStatus, store, now,
                 sweepDue, hist>>

\* result.rows.forEach(async (row) => ...): every callback runs to its own
\* await at once, having read the peer's socket id from connectedUsers;
\* peers without one are skipped.  A failed query lands in the catch.
TypingCallbacks(t) ==
  /\ t \in BagToSet(tasks)
  /\ t.kind = "typing"
  /\ t.pc = "peers" /\ t.ready
  /\ tasks' = Without(t) (+)
       (IF ~t.ok THEN EmptyBag
        ELSE SetToBag({[NewTask("temit", "name", connectedUsers[t.rows[k]])
                          EXCEPT !.user = t.user, !.conv = t.conv,
                                 !.state = t.state, !.res = t.rows[k]] :
                        k \in {j \in DOMAIN t.rows : connectedUsers[t.rows[j]] # None}}))
  /\ emits' = {}
  /\ UNCHANGED <<open, nextSock, registry, userTypingStatus, store, now,
                 sweepDue, hist>>

\* SELECT name FROM users WHERE id = $1
DbSelectName(t) ==
  /\ t \in BagToSet(tasks)
  /\ Awaiting(t, "name")
  /\ tasks' = Without(t) (+) One([t EXCEPT !.ready = TRUE])
  /\ emits' = {}
  /\ UNCHANGED <<open, nextSock, registry, userTypingStatus, store, now,
                 sweepDue, hist>>

\* io.to(otherUserSocketId).emit('user_typing_status', ...), to the socket
\* id read before the await.
TypingEmit(t) ==
  /\ t \in BagToSet(tasks)
  /\ t.kind = "temit"
  /\ Answered(t, "name")
  /\ tasks' = Without(t)
  /\ emits' = {Ev("user_typing_status", "to", t.sock, t.user, t.conv, None, {},
                  t.state)}
  /\ UNCHANGED <<open, nextSock, registry, userTypingStatus, store, now,
                 sweepDue, hist>>

\* socket.on('conversation_opened'): io.emit only.
ConversationOpened(s, c, userId) ==
  /\ s \in open
  /\ emits' = {Ev("conversation_opened", "all", None, userId, c, None, {}, "")}
  /\ UNCHANGED <<open, nextSock, registry, userTypingStatus, store, tasks,
                 now, sweepDue, hist>>

----------------------------------------------------------------------------
(* Specifications *)

InFlight == BagCardinality(tasks)
Running == BagToSet(tasks)

MaxSockets == 3
MaxInFlight == 2
MaxClock == 50000

\* Presence: one user authenticating on up to MaxSockets sockets, with
\* disconnects, heartbeats, the sweep, and a Store that may fail.
NextPresence ==
  \/ nextSock <= MaxSockets /\ Connect
  \/ \E s \in open : InFlight < MaxInFlight /\ Authenticate(s, 1)
  \/ \E s \in open : InFlight < MaxInFlight /\ Disconnect(s)
  \/ InFlight < MaxInFlight /\ SweepStart
  \/ now < MaxClock /\ Tick(SWEEP_INTERVAL)
  \/ \E t \in Running : DbFail(t)
  \/ \E t \in Running : Unhandled(t)
  \/ \E t \in Running : DbSetOnline(t)
  \/ \E t \in Running : DbSetOffline(t)
  \/ \E t \in Running : DbSelectPending(t)
  \/ \E t \in Running : DbSelectConversationsOf(t)
  \/ \E t \in Running : DbSelectUser(t)
  \/ \E t \in Running : AuthenticateFailed(t)
  \/ \E t \in Running : ReplayStart(t)
  \/ \E t \in Running : ReplayLoop(t)
  \/ \E t \in Running : ReplayFailed(t)
  \/ \E t \in Running : SnapshotLoop(t)
  \/ \E t \in Running : SnapshotNext(t)
  \/ \E t \in Running : DisconnectCleanup(t)
  \/ \E t \in Running : SweepEvict(t)
  \/ \E t \in Running : SweepFailed(t)

SpecPresence == Init /\ [][NextPresence]_vars

\* Delivery: users 1 and 2 of conversation 1, each acting under its own
\* id on the socket it is registered on.
MaxChatSockets == 2
MaxMessages == 1
MaxChatInFlight == 2

\* The sockets are opened by the clients of users 1 and 2 in turn.
ClientOf(s) == ((s - 1) % 2) + 1

Sent == Len(messages) + Cardinality({t \in Running : Awaiting(t, "insert")})

NextDelivery ==
  \/ nextSock <= MaxChatSockets /\ Connect
  \/ \E s \in open :
       InFlight < MaxChatInFlight /\ Authenticate(s, ClientOf(s))
  \/ \E s \in open : InFlight < MaxChatInFlight /\ Disconnect(s)
  \/ \E s \in open, state \in {"active", "background"} :
       InFlight < MaxChatInFlight /\ AppStateChange(s, state)
  \/ \E s \in open :
       /\ InFlight < MaxChatInFlight /\ Sent < MaxMessages
       /\ userSockets[s] # None
       /\ SendMessage(s, 1, userSockets[s])
  \/ \E s \in open :
       /\ InFlight < MaxChatInFlight
       /\ userSockets[s] # None
       /\ ReadMessages(s, 1, userSockets[s])
  \/ \E t \in Running : DbSetOnline(t)
  \/ \E t \in Running : DbSetOffline(t)
  \/ \E t \in Running : DbSelectPending(t)
  \/ \E t \in Running : DbMarkDelivered(t)
  \/ \E t \in Running : DbSelectConversationsOf(t)
  \/ \E t \in Running : DbSelectUser(t)
  \/ \E t \in Running : DbInsertMessage(t)
  \/ \E t \in Running : DbSelectConversation(t)
  \/ \E t \in Running : DbSelectOnline(t)
  \/ \E t \in Running : DbRefetchMessage(t)
  \/ \E t \in Running : DbMarkRead(t)
  \/ \E t \in Running : ReplayStart(t)
  \/ \E t \in Running : ReplayLoop(t)
  \/ \E t \in Running : ReplayNotify(t)
  \/ \E t \in Running : SnapshotLoop(t)
  \/ \E t \in Running : SnapshotNext(t)
  \/ \E t \in Running : DisconnectCleanup(t)
  \/ \E t \in Running : AppWentOffline(t)
  \/ \E t \in Running : SendLookup(t)
  \/ \E t \in Running : SendCheckOnline(t)
  \/ \E t \in Running : SendDecide(t)
  \/ \E t \in Running : SendRefetch(t)
  \/ \E t \in Running : SendNotify(t)
  \/ \E t \in Running : ReadLookup(t)
  \/ \E t \in Running : ReadNotify(t)

SpecDelivery == Init /\ [][NextDelivery]_vars

\* Sending: user 1 sends in conversation 1 while user 2 comes, goes and
\* changes its app state; the Store may fail any query of message:send.
NextSend ==
  \/ nextSock <= MaxChatSockets /\ Connect
  \/ \E s \in open :
       InFlight < MaxChatInFlight /\ Authenticate(s, ClientOf(s))
  \/ \E s \in open :
       InFlight < MaxChatInFlight /\ ClientOf(s) = 2 /\ Disconnect(s)
  \/ \E s \in open, state \in {"active", "background"} :
       InFlight < MaxChatInFlight /\ ClientOf(s) = 2 /\ AppStateChange(s, state)
  \/ \E s \in open :
       /\ InFlight < MaxChatInFlight /\ Sent < MaxMessages
       /\ userSockets[s] = 1
       /\ SendMessage(s, 1, 1)
  \/ \E t \in Running : t.kind = "send" /\ DbFail(t)
  \/ \E t \in Running : DbSetOnline(t)
  \/ \E t \in Running : DbSetOffline(t)
  \/ \E t \in Running : DbSelectPending(t)
  \/ \E t \in Running : DbMarkDelivered(t)
  \/ \E t \in Running : DbSelectConversationsOf(t)
  \/ \E t \in Running : DbSelectUser(t)
  \/ \E t \in Running : DbInsertMessage(t)
  \/ \E t \in Running : DbSelectConversation(t)
  \/ \E t \in Running : DbSelectOnline(t)
  \/ \E t \in Running : DbRefetchMessage(t)
  \/ \E t \in Running : ReplayStart(t)
  \/ \E t \in Running : ReplayLoop(t)
  \/ \E t \in Running : ReplayNotify(t)
  \/ \E t \in Running : SnapshotLoop(t)
  \/ \E t \in Running : SnapshotNext(t)
  \/ \E t \in Running : DisconnectCleanup(t)
  \/ \E t \in Running : AppWentOffline(t)
  \/ \E t \in Running : SendLookup(t)
  \/ \E t \in Running : SendCheckOnline(t)
  \/ \E t \in Running : SendDecide(t)
  \/ \E t \in Running : SendRefetch(t)
  \/ \E t \in Running : SendNotify(t)
  \/ \E t \in Running : SendFailed(t)

SpecSend == Init /\ [][NextSend]_vars

\* Handlers take the acting user from the payload: every client may name
\* any user.  Conversation 1 is the one referenced; user 3 is no participant
\* of it.
MaxAccessSockets == 2
MaxAccessMessages == 2
MaxAccessInFlight == 1

NextAccess ==
  \/ nextSock <= MaxAccessSockets /\ Connect
  \/ \E s \in open :
       /\ InFlight < MaxAccessInFlight /\ userSockets[s] = None
       /\ Authenticate(s, ClientOf(s))
  \/ \E s \in open, u \in Users :
       /\ InFlight < MaxAccessInFlight /\ Sent < MaxAccessMessages
       /\ SendMessage(s, 1, u)
  \/ \E s \in open, u \in Users :
       InFlight < MaxAccessInFlight /\ ReadMessages(s, 1, u)
  \/ \E s \in open, u \in Users :
       InFlight < MaxAccessInFlight /\ TypingStart(s, 1, u)
  \/ \E s \in open, u \in Users :
       InFlight < MaxAccessInFlight /\ TypingStop(s, 1, u)
  \/ \E t \in Running : t.kind = "read" /\ DbFail(t)
  \/ \E t \in Running : DbSetOnline(t)
  \/ \E t \in Running : DbSelectPending(t)
  \/ \E t \in Running : DbMarkDelivered(t)
  \/ \E t \in Running : DbSelectConversationsOf(t)
  \/ \E t \in Running : DbSelectUser(t)
  \/ \E t \in Running : DbInsertMessage(t)
  \/ \E t \in Running : DbSelectConversation(t)
  \/ \E t \in Running : DbSelectOnline(t)
  \/ \E t \in Running : DbRefetchMessage(t)
  \/ \E t \in Running : DbMarkRead(t)
  \/ \E t \in Running : DbSelectPeers(t)
  \/ \E t \in Running : DbSelectName(t)
  \/ \E t \in Running : ReplayStart(t)
  \/ \E t \in Running : ReplayLoop(t)
  \/ \E t \in Running : ReplayNotify(t)
  \/ \E t \in Running : SnapshotLoop(t)
  \/ \E t \in Running : SnapshotNext(t)
  \/ \E t \in Running : SendLookup(t)
  \/ \E t \in Running : SendCheckOnline(t)
  \/ \E t \in Running : SendDecide(t)
  \/ \E t \in Running : SendRefetch(t)
  \/ \E t \in Running : SendNotify(t)
  \/ \E t \in Running : ReadLookup(t)
  \/ \E t \in Running : ReadNotify(t)
  \/ \E t \in Running : ReadFailed(t)
  \/ \E t \in Running : TypingCallbacks(t)
  \/ \E t \in Running : TypingEmit(t)

SpecAccess == Init /\ [][NextAccess]_vars

\* message:read racing with message:send and authenticate: client 1 sends
\* (as user 1 or 2), client 2 reads (as user 2 or 3), the Store may fail any
\* query of message:read.
NextRead ==
  \/ nextSock <= MaxChatSockets /\ Connect
  \/ \E s \in open :
       /\ InFlight < MaxChatInFlight /\ userSockets[s] = None
       /\ Authenticate(s, ClientOf(s))
  \/ \E s \in open, u \in {1, 2} :
       /\ InFlight < MaxChatInFlight /\ Sent < MaxAccessMessages
       /\ ClientOf(s) = 1
       /\ SendMessage(s, 1, u)
  \/ \E s \in open, u \in {2, 3} :
       /\ InFlight < MaxChatInFlight
       /\ ClientOf(s) = 2
       /\ ReadMessages(s, 1, u)
  \/ \E t \in Running : t.kind = "read" /\ DbFail(t)
  \/ \E t \in Running : DbSetOnline(t)
  \/ \E t \in Running : DbSelectPending(t)
  \/ \E t \in Running : DbMarkDelivered(t)
  \/ \E t \in Running : DbSelectConversationsOf(t)
  \/ \E t \in Running : DbSelectUser(t)
  \/ \E t \in Running : DbInsertMessage(t)
  \/ \E t \in Running : DbSelectConversation(t)
  \/ \E t \in Running : DbSelectOnline(t)
  \/ \E t \in Running : DbRefetchMessage(t)
  \/ \E t \in Running : DbMarkRead(t)
  \/ \E t \in Running : ReplayStart(t)
  \/ \E t \in Running : ReplayLoop(t)
  \/ \E t \in Running : ReplayNotify(t)
  \/ \E t \in Running : SnapshotLoop(t)
  \/ \E t \in Running : SnapshotNext(t)
  \/ \E t \in Running : SendLookup(t)
  \/ \E t \in Running : SendCheckOnline(t)
  \/ \E t \in Running : SendDecide(t)
  \/ \E t \in Running : SendRefetch(t)
  \/ \E t \in Running : SendNotify(t)
  \/ \E t \in Running : ReadLookup(t)
  \/ \E t \in Running : ReadNotify(t)
  \/ \E t \in Running : ReadFailed(t)

SpecRead == Init /\ [][NextRead]_vars

\* Typing and unreachability: the clients of users 1 and 2 authenticate;
\* user 1 types in conversation 1 under its own id, and its connection ends
\* by a disconnect or by the sweep.
NextTyping ==
  \/ nextSock <= MaxChatSockets /\ Connect
  \/ \E s \in open :
       /\ InFlight < MaxChatInFlight /\ userSockets[s] = None
       /\ Authenticate(s, ClientOf(s))
  \/ \E s \in open :
       /\ InFlight < MaxChatInFlight /\ userSockets[s] = 1
       /\ userTypingStatus[1] = None
       /\ TypingStart(s, 1, 1)
  \/ \E s \in open :
       /\ InFlight < MaxChatInFlight /\ userSockets[s] = 1
       /\ userTypingStatus[1] # None
       /\ TypingStop(s, 1, 1)
  \/ \E s \in open :
       InFlight < MaxChatInFlight /\ ClientOf(s) = 1 /\ Disconnect(s)
  \/ InFlight < MaxChatInFlight /\ SweepStart
  \/ now < MaxClock /\ Tick(SWEEP_INTERVAL)
  \/ \E t \in Running : DbSetOnline(t)
  \/ \E t \in Running : DbSetOffline(t)
  \/ \E t \in Running : DbSelectPending(t)
  \/ \E t \in Running : DbSelectConversationsOf(t)
  \/ \E t \in Running : DbSelectUser(t)
  \/ \E t \in Running : DbSelectPeers(t)
  \/ \E t \in Running : DbSelectName(t)
  \/ \E t \in Running : ReplayStart(t)
  \/ \E t \in Running : ReplayLoop(t)
  \/ \E t \in Running : SnapshotLoop(t)
  \/ \E t \in Running : SnapshotNext(t)
  \/ \E t \in Running : DisconnectCleanup(t)
  \/ \E t \in Running : SweepEvict(t)
  \/ \E t \in Running : TypingCallbacks(t)
  \/ \E t \in Running : TypingEmit(t)

SpecTyping == Init /\ [][NextTyping]_vars

\* Store failures in delivery: user 1 sends, user 2 reads, comes and goes;
\* the Store may fail any query of message:send, of message:read, of the
\* replay pass and of the conversation snapshot.
NextFailure ==
  \/ nextSock <= MaxChatSockets /\ Connect
  \/ \E s \in open :
       /\ InFlight < MaxChatInFlight /\ userSockets[s] = None
       /\ Authenticate(s, ClientOf(s))
  \/ \E s \in open :
       InFlight < MaxChatInFlight /\ ClientOf(s) = 2 /\ Disconnect(s)
  \/ \E s \in open :
       /\ InFlight < MaxChatInFlight /\ Sent < MaxAccessMessages
       /\ userSockets[s] = 1
       /\ SendMessage(s, 1, 1)
  \/ \E s \in open :
       /\ InFlight < MaxChatInFlight
       /\ userSockets[s] = 2
       /\ ReadMessages(s, 1, 2)
  \/ \E t \in Running :
       /\ IF t.kind = "auth" THEN t.pc \in {"pending", "deliver", "convs", "user"}
          ELSE t.kind \in {"send", "read"}
       /\ DbFail(t)
  \/ \E t \in Running : DbSetOnline(t)
  \/ \E t \in Running : DbSetOffline(t)
  \/ \E t \in Running : DbSelectPending(t)
  \/ \E t \in Running : DbMarkDelivered(t)
  \/ \E t \in Running : DbSelectConversationsOf(t)
  \/ \E t \in Running : DbSelectUser(t)
  \/ \E t \in Running : DbInsertMessage(t)
  \/ \E t \in Running : DbSelectConversation(t)
  \/ \E t \in Running : DbSelectOnline(t)
  \/ \E t \in Running : DbRefetchMessage(t)
  \/ \E t \in Running : DbMarkRead(t)
  \/ \E t \in Running : ReplayStart(t)
  \/ \E t \in Running : ReplayLoop(t)
  \/ \E t \in Running : ReplayNotify(t)
  \/ \E t \in Running : ReplayFailed(t)
  \/ \E t \in Running : SnapshotLoop(t)
  \/ \E t \in Running : SnapshotNext(t)
  \/ \E t \in Running : DisconnectCleanup(t)
  \/ \E t \in Running : SendLookup(t)
  \/ \E t \in Running : SendCheckOnline(t)
  \/ \E t \in Running : SendDecide(t)
  \/ \E t \in Running : SendRefetch(t)
  \/ \E t \in Running : SendNotify(t)
  \/ \E t \in Running : SendFailed(t)
  \/ \E t \in Running : ReadLookup(t)
  \/ \E t \in Running : ReadNotify(t)
  \/ \E t \in Running : ReadFailed(t)

SpecFailure == Init /\ [][NextFailure]_vars

MaxSessionSockets == 2

\* Sessions: user 1 on up to MaxSessionSockets sockets that authenticate with
\* a valid or a rejected token, send heartbeats, disconnect, or fall silent
\* until the sweep evicts them; the Store may fail the heartbeat's and the
\* disconnect's UPDATE.
NextSession ==
  \/ nextSock <= MaxSessionSockets /\ Connect
  \/ \E s \in open : InFlight < MaxInFlight /\ Authenticate(s, 1)
  \/ \E s \in open : AuthenticateInvalid(s)
  \/ \E s \in open : InFlight < MaxInFlight /\ Heartbeat(s)
  \/ \E s \in open : InFlight < MaxInFlight /\ Disconnect(s)
  \/ InFlight < MaxInFlight /\ SweepStart
  \/ now < MaxClock /\ Tick(SWEEP_INTERVAL)
  \/ \E t \in Running : t.kind \in {"hb", "disc"} /\ DbFail(t)
  \/ \E t \in Running : Unhandled(t)
  \/ \E t \in Running : DbSetOnline(t)
  \/ \E t \in Running : DbSetOffline(t)
  \/ \E t \in Running : DbTouchLastSeen(t)
  \/ \E t \in Running : DbSelectPending(t)
  \/ \E t \in Running : DbSelectConversationsOf(t)
  \/ \E t \in Running : DbSelectUser(t)
  \/ \E t \in Running : ReplayStart(t)
  \/ \E t \in Running : ReplayLoop(t)
  \/ \E t \in Running : SnapshotLoop(t)
  \/ \E t \in Running : SnapshotNext(t)
  \/ \E t \in Running : DisconnectCleanup(t)
  \/ \E t \in Running : SweepEvict(t)

SpecSession == Init /\ [][NextSession]_vars

\* After an eviction: no socket disconnects; client 1 authenticates, may fall
\* silent until the sweep evicts it, and goes on sending the events of a
\* client on its socket, registered or not; client 2 authenticates and
\* sends.  Every client names itself in its payloads.
NextEvicted ==
  \/ nextSock <= MaxChatSockets /\ Connect
  \/ \E s \in open :
       /\ InFlight < MaxAccessInFlight /\ userSockets[s] = None
       /\ Authenticate(s, ClientOf(s))
  \/ \E s \in open :
       InFlight < MaxAccessInFlight /\ ClientOf(s) = 1 /\ Heartbeat(s)
  \/ \E s \in open :
       /\ InFlight < MaxAccessInFlight /\ ClientOf(s) = 1
       /\ AppStateChange(s, "background")
  \/ \E s \in open :
       /\ InFlight < MaxAccessInFlight /\ ClientOf(s) = 1
       /\ userTypingStatus[1] = None
       /\ TypingStart(s, 1, 1)
  \/ \E s \in open :
       /\ InFlight < MaxAccessInFlight /\ ClientOf(s) = 1
       /\ userTypingStatus[1] # None
       /\ TypingStop(s, 1, 1)
  \/ \E s \in open :
       /\ InFlight < MaxAccessInFlight /\ Sent < MaxMessages
       /\ SendMessage(s, 1, ClientOf(s))
  \/ \E s \in open :
       /\ InFlight < MaxAccessInFlight /\ ClientOf(s) = 1
       /\ ReadMessages(s, 1, 1)
  \/ InFlight < MaxAccessInFlight /\ SweepStart
  \/ now < MaxClock /\ Tick(SWEEP_INTERVAL)
  \/ \E t \in Running : DbSetOnline(t)
  \/ \E t \in Running : DbSetOffline(t)
  \/ \E t \in Running : DbTouchLastSeen(t)
  \/ \E t \in Running : DbSelectPending(t)
  \/ \E t \in Running : DbMarkDelivered(t)
  \/ \E t \in Running : DbSelectConversationsOf(t)
  \/ \E t \in Running : DbSelectUser(t)
  \/ \E t \in Running : DbInsertMessage(t)
  \/ \E t \in Running : DbSelectConversation(t)
  \/ \E t \in Running : DbSelectOnline(t)
  \/ \E t \in Running : DbRefetchMessage(t)
  \/ \E t \in Running : DbMarkRead(t)
  \/ \E t \in Running : DbSelectPeers(t)
  \/ \E t \in Running : DbSelectName(t)
  \/ \E t \in Running : ReplayStart(t)
  \/ \E t \in Running : ReplayLoop(t)
  \/ \E t \in Running : ReplayNotify(t)
  \/ \E t \in Running : SnapshotLoop(t)
  \/ \E t \in Running : SnapshotNext(t)
  \/ \E t \in Running : AppWentOffline(t)
  \/ \E t \in Running : SweepEvict(t)
  \/ \E t \in Running : SendLookup(t)
  \/ \E t \in Running : SendCheckOnline(t)
  \/ \E t \in Running : SendDecide(t)
  \/ \E t \in Running : SendRefetch(t)
  \/ \E t \in Running : SendNotify(t)
  \/ \E t \in Running : ReadLookup(t)
  \/ \E t \in Running : ReadNotify(t)
  \/ \E t \in Running : TypingCallbacks(t)
  \/ \E t \in Running : TypingEmit(t)

SpecEvicted == Init /\ [][NextEvicted]_vars

MaxFanoutSockets == 3

\* The user whose token the client behind socket s holds: socket 1 is
\* user 1's, every later socket user 2's.
TokenOf(s) == IF s = 1 THEN 1 ELSE 2

\* Typing fan-out: user 1 starts and stops typing in conversation 1 while
\* user 2, its peer, authenticates on one socket after another.
NextFanout ==
  \/ nextSock <= MaxFanoutSockets /\ Connect
  \/ \E s \in open :
       /\ InFlight < MaxChatInFlight /\ userSockets[s] = None
       /\ Authenticate(s, TokenOf(s))
  \/ \E s \in open :
       /\ InFlight < MaxChatInFlight /\ userSockets[s] = 1
       /\ userTypingStatus[1] = None
       /\ TypingStart(s, 1, 1)
  \/ \E s \in open :
       /\ InFlight < MaxChatInFlight /\ userSockets[s] = 1
       /\ userTypingStatus[1] # None
       /\ TypingStop(s, 1, 1)
  \/ \E t \in Running : DbSetOnline(t)
  \/ \E t \in Running : DbSelectPending(t)
  \/ \E t \in Running : DbSelectConversationsOf(t)
  \/ \E t \in Running : DbSelectUser(t)
  \/ \E t \in Running : DbSelectPeers(t)
  \/ \E t \in Running : DbSelectName(t)
  \/ \E t \in Running : ReplayStart(t)
  \/ \E t \in Running : ReplayLoop(t)
  \/ \E t \in Running : SnapshotLoop(t)
  \/ \E t \in Running : SnapshotNext(t)
  \/ \E t \in Running : TypingCallbacks(t)
  \/ \E t \in Running : TypingEmit(t)

SpecFanout == Init /\ [][NextFanout]_vars

\* Typing entries: registered users start typing in one conversation after
\* another, stop, and disconnect.
NextTypingState ==
  \/ nextSock <= MaxChatSockets /\ Connect
  \/ \E s \in open :
       /\ InFlight < MaxChatInFlight /\ userSockets[s] = None
       /\ Authenticate(s, ClientOf(s))
  \/ \E s \in open, c \in ConvIds :
       /\ InFlight < MaxChatInFlight /\ userSockets[s] # None
       /\ TypingStart(s, c, userSockets[s])
  \/ \E s \in open, c \in ConvIds :
       /\ InFlight < MaxChatInFlight /\ userSockets[s] # None
       /\ userTypingStatus[userSockets[s]] # None
       /\ TypingStop(s, c, userSockets[s])
  \/ \E s \in open : InFlight < MaxChatInFlight /\ Disconnect(s)
  \/ \E t \in Running : DbSetOnline(t)
  \/ \E t \in Running : DbSetOffline(t)
  \/ \E t \in Running : DbSelectPending(t)
  \/ \E t \in Running : DbSelectConversationsOf(t)
  \/ \E t \in Running : DbSelectUser(t)
  \/ \E t \in Running : DbSelectPeers(t)
  \/ \E t \in Running : DbSelectName(t)
  \/ \E t \in Running : ReplayStart(t)
  \/ \E t \in Running : ReplayLoop(t)
  \/ \E t \in Running : SnapshotLoop(t)
  \/ \E t \in Running : SnapshotNext(t)
  \/ \E t \in Running : DisconnectCleanup(t)
  \/ \E t \in Running : TypingCallbacks(t)
  \/ \E t \in Running : TypingEmit(t)

SpecTypingState == Init /\ [][NextTypingState]_vars

\* The state values a client may send with app_state_change: the three the
\* handler knows and one it does not.
AppStates == {"active", "background", "inactive", "resumed"}

\* App states: user 1 sends to user 2, whose client authenticates, goes to
\* the background and comes back, and disconnects.
NextAppState ==
  \/ nextSock <= MaxChatSockets /\ Connect
  \/ \E s \in open :
       /\ InFlight < MaxChatInFlight /\ userSockets[s] = None
       /\ Authenticate(s, ClientOf(s))
  \/ \E s \in open :
       InFlight < MaxChatInFlight /\ ClientOf(s) = 2 /\ Disconnect(s)
  \/ \E s \in open, state \in AppStates :
       InFlight < MaxChatInFlight /\ ClientOf(s) = 2 /\ AppStateChange(s, state)
  \/ \E s \in open :
       /\ InFlight < MaxChatInFlight /\ Sent < MaxMessages
       /\ userSockets[s] = 1
       /\ SendMessage(s, 1, 1)
  \/ \E t \in Running : DbSetOnline(t)
  \/ \E t \in Running : DbSetOffline(t)
  \/ \E t \in Running : DbSelectPending(t)
  \/ \E t \in Running : DbMarkDelivered(t)
  \/ \E t \in Running : DbSelectConversationsOf(t)
  \/ \E t \in Running : DbSelectUser(t)
  \/ \E t \in Running : DbInsertMessage(t)
  \/ \E t \in Running : DbSelectConversation(t)
  \/ \E t \in Running : DbSelectOnline(t)
  \/ \E t \in Running : DbRefetchMessage(t)
  \/ \E t \in Running : ReplayStart(t)
  \/ \E t \in Running : ReplayLoop(t)
  \/ \E t \in Running : ReplayNotify(t)
  \/ \E t \in Running : SnapshotLoop(t)
  \/ \E t \in Running : SnapshotNext(t)
  \/ \E t \in Running : DisconnectCleanup(t)
  \/ \E t \in Running : AppWentOffline(t)
  \/ \E t \in Running : SendLookup(t)
  \/ \E t \in Running : SendCheckOnline(t)
  \/ \E t \in Running : SendDecide(t)
  \/ \E t \in Running : SendRefetch(t)
  \/ \E t \in Running : SendNotify(t)

SpecAppState == Init /\ [][NextAppState]_vars

----------------------------------------------------------------------------
(* Claims *)

RegisteredAs(us, u) == {x \in DOMAIN us : us[x] = u}

\* C1: after an authenticate of user 1 on socket s has installed its
\* registration, connectedUsers[1] is s, s is the only socket userSockets
\* maps to user 1, and every socket that was registered for user 1 before
\* is out of userSockets and disconnected.
C1_SingleConnectionPerUser ==
  [][\A s \in open :
       Authenticate(s, 1) =>
         /\ connectedUsers'[1] = s
         /\ RegisteredAs(userSockets', 1) = {s}
         /\ \A old \in RegisteredAs(userSockets, 1) \ {s} : old \notin open']_vars

\* Task t took the step: one copy of it is gone.
Stepped(t) == CopiesIn(t, tasks') < CopiesIn(t, tasks)

Rank(m) == IF m.is_read THEN 2 ELSE IF m.is_delivered THEN 1 ELSE 0

\* C2: the delivery state of a message (sent: neither flag, delivered:
\* is_delivered, read: is_read) only ever moves one stage forward: never
\* back, and never from sent to read.
C2_DeliveryMonotonic ==
  [][\A m \in DOMAIN messages :
       /\ Rank(messages'[m]) >= Rank(messages[m])
       /\ Rank(messages'[m]) <= Rank(messages[m]) + 1]_vars

\* C3: the delivered UPDATE is done at most once per message.
C3_DeliveredWrittenOnce == \A m \in DOMAIN hist : hist[m].writes <= 1

\* C4: the sender of a message gets at most one delivery notification for
\* it, message:new 'delivered' and message:delivered taken together.
C4_OneDeliveryNotification ==
  \A m \in DOMAIN hist : hist[m].inline + hist[m].replayed <= 1

\* The step in which authenticate task t emits 'authenticated' and ends.
AuthenticateEnds(t) ==
  /\ t.kind = "auth"
  /\ Stepped(t)
  /\ Ev("authenticated", "socket", t.sock, None, None, None, {}, "") \in emits'

\* Message m was left to the replay: its message:send handler is over and
\* sent its sender no message:new 'delivered'.
LeftToReplay(m) ==
  /\ hist'[m].inline = 0
  /\ ~\E t \in BagToSet(tasks') : t.kind = "send" /\ t.msg = m

\* C5: when the authenticate of a user completes, every message that was
\* sent to the user while it had no connection (and left to the replay) is
\* delivered, and its sender, if registered, has got exactly one
\* message:delivered for it.
C5_ReplayComplete ==
  [][\A t \in Running :
       AuthenticateEnds(t) =>
         \A m \in t.owed :
           LeftToReplay(m) =>
             /\ messages'[m].is_delivered
             /\ connectedUsers'[messages'[m].sender_id] # None
                  => hist'[m].replayed = 1]_vars

\* The step in which message:send task t ends without a failed query.
SendEnds(t) ==
  /\ t.kind = "send"
  /\ t.ready /\ t.ok
  /\ Stepped(t)
  /\ ~\E t2 \in BagToSet(tasks') : t2.kind = "send" /\ t2.msg = t.msg

Recipient(t) == OtherUser(t.conv, t.user)

DeliveredToBoth(t) ==
  /\ messages'[t.msg].is_delivered
  /\ MessageNew(t, "socket", t.sock, "delivered") \in emits'
  /\ MessageNew(t, "to", connectedUsers[Recipient(t)], "delivered") \in emits'

C7_SentIfNotRegistered ==
  [][\A t \in Running :
       SendEnds(t) /\ ~t.socketOnline /\ t.pc # "insert" /\ t.pc # "conv"
                   /\ connectedUsers[Recipient(t)] = None
         => /\ ~messages'[t.msg].is_delivered
            /\ emits' = {MessageNew(t, "socket", t.sock, "sent")}]_vars

\* The messages that become read in this step.
BecomeRead == {m \in DOMAIN messages : ~messages[m].is_read /\ messages'[m].is_read}

\* Task t2 is task t with its UPDATE answered, and this step produced it.
ReadAnswer(t, t2) ==
  /\ t2 = [t EXCEPT !.ready = TRUE, !.rows = t2.rows]
  /\ CopiesIn(t2, tasks') > CopiesIn(t2, tasks)

\* The step in which the Store executes the UPDATE of message:read task t.
MarksRead(t) ==
  /\ t.kind = "read"
  /\ Awaiting(t, "markread")
  /\ Stepped(t)
  /\ \E t2 \in BagToSet(tasks') : ReadAnswer(t, t2)

\* In the step that executes the UPDATE of t, exactly the unread messages of
\* t's conversation not authored by t's user become read (read_at = now),
\* nothing else of any message changes, and the rows returned to the handler
\* are exactly those messages.
ReadBatch(t) ==
  /\ \A m \in DOMAIN messages :
       IF /\ messages[m].conversation_id = t.conv
          /\ messages[m].sender_id # t.user
          /\ ~messages[m].is_read
         THEN messages'[m] = [messages[m] EXCEPT !.is_read = TRUE, !.read_at = now]
         ELSE messages'[m] = messages[m]
  /\ \A t2 \in BagToSet(tasks') :
       ReadAnswer(t, t2) =>
         /\ Range(t2.rows) = BecomeRead
         /\ Len(t2.rows) = Cardinality(BecomeRead)

\* The step in which message:read task t ends.
ReadEnds(t) ==
  /\ t.kind = "read"
  /\ t.ready
  /\ Stepped(t)
  /\ BagCardinality(tasks') < BagCardinality(tasks)

ReadReceipt(t) ==
  Ev("message:read", "to", connectedUsers[OtherUser(t.conv, t.user)],
     t.user, t.conv, None, Range(t.rows), "")

C9_ReadOnlyByParticipant ==
  [][\A m \in BecomeRead :
       \E t \in Running :
         /\ MarksRead(t)
         /\ Participant(messages[m].conversation_id, t.user)
         /\ t.user # messages[m].sender_id]_vars

\* The events of a set that are addressed to a connection or to everyone
\* other than socket s.
ToOthers(es, s) == {e \in es : e.via = "all" \/ (e.to # s /\ e.to # None)}

\* C10: nothing a non-participant of the referenced conversation starts has
\* an effect: no step of a message:send, message:read or typing task acting
\* for a non-participant changes messages or emits to others, and no typing
\* entry is stored for a user on a conversation it is no participant of.
C10_NonParticipantRejected ==
  [][/\ \A t \in Running :
          /\ t.kind \in {"send", "read", "typing", "temit"}
          /\ ~Participant(t.conv, t.user)
          /\ Stepped(t)
          => /\ messages' = messages
             /\ ToOthers(emits', t.sock) = {}
     /\ \A u \in Users :
          userTypingStatus'[u] # userTypingStatus[u] /\ userTypingStatus'[u] # None
            => Participant(userTypingStatus'[u], u)]_vars

\* The step starts the isTyping=false fan-out for user u.
StopStarted(u) ==
  \E t \in BagToSet(tasks') :
    /\ t.kind = "typing" /\ t.user = u /\ t.state = "stop"
    /\ CopiesIn(t, tasks') > CopiesIn(t, tasks)

\* The users sharing a conversation with u that have a registered connection.
ConnectedPeers(u) ==
  {OtherUser(c, u) : c \in ConvsOf(u)} \cap {v \in Users : connectedUsers[v] # None}

\* C11: the step that makes a typing user unreachable (its connectedUsers
\* entry goes, by the disconnect handler or by the sweep) while a peer is
\* connected removes the typing entry and starts the isTyping=false
\* notification of the user's peers.
C11_TypingStoppedWhenUnreachable ==
  [][\A u \in Users :
       /\ connectedUsers[u] # None /\ connectedUsers'[u] = None
       /\ userTypingStatus[u] # None
       /\ ConnectedPeers(u) # {}
       => userTypingStatus'[u] = None /\ StopStarted(u)]_vars

\* The step in which sweep task t, its UPDATE answered, evicts t.user.
Evicts(t) == t.kind = "sweep" /\ Answered(t, "offline") /\ Stepped(t)

\* C12: an eviction by the sweep has the effects of a disconnect: the
\* sweep's UPDATE marks the user offline in the Store, and the eviction
\* takes the user out of connectedUsers, userSockets and userHeartbeats,
\* removes its typing entry with the isTyping=false fan-out started, and
\* broadcasts the offline user_status_change.
C12_EvictionAsDisconnect ==
  [][/\ \A t \in BagToSet(tasks') :
          /\ t.kind = "sweep" /\ Answered(t, "offline")
          /\ CopiesIn(t, tasks') > CopiesIn(t, tasks)
          => ~users'[t.user].is_online
     /\ \A t \in Running :
          Evicts(t) =>
            /\ connectedUsers'[t.user] = None
            /\ RegisteredAs(userSockets', t.user) = {}
            /\ t.user \notin HbUsers(userHeartbeats')
            /\ userTypingStatus'[t.user] = None
            /\ userTypingStatus[t.user] # None => StopStarted(t.user)
            /\ StatusChange(t.user, FALSE) \in emits']_vars

\* Events that announce a delivery-state transition.
AnnouncesDelivered(e) ==
  e.ev = "message:delivered" \/ (e.ev = "message:new" /\ e.status = "delivered")

\* C13: a delivered notification (message:new 'delivered', message:delivered)
\* is emitted only for a message whose delivered UPDATE has been executed by
\* the Store, a message:read only by a read handler whose UPDATE was
\* answered and only for rows that UPDATE marked read; the handler step that
\* follows a failed delivered or read UPDATE emits no such notification.
C13_NotifyAfterWrite ==
  [][/\ \A e \in emits' :
          /\ AnnouncesDelivered(e) =>
               messages[e.msg].is_delivered /\ hist[e.msg].writes >= 1
          /\ e.ev = "message:read" =>
               /\ \A m \in e.ids : messages[m].is_read
               /\ \E t \in Running :
                    /\ t.kind = "read" /\ Stepped(t) /\ ~Failed(t)
                    /\ t.pc \in {"markread", "conv"}
     /\ \A t \in Running :
          Failed(t) /\ Stepped(t) /\ t.pc \in {"deliver", "markread"} =>
            \A e \in emits' : ~AnnouncesDelivered(e) /\ e.ev # "message:read"]_vars

\* C13 witness: a delivered notice and a read receipt have each reached a
\* connected socket for a message the Store holds as delivered and read.
C13_Witness ==
  /\ \E e \in emits : e.ev = "message:read" /\ e.via = "to" /\ e.to \in open
                      /\ e.ids # {}
  /\ \E m \in DOMAIN hist : hist[m].replayed + hist[m].inline >= 1

MessageError(s) == Ev("message:error", "socket", s, None, None, None, {}, "")

\* The step in which the Store fails the query task t awaits.
QueryFails(t) ==
  /\ ~t.ready
  /\ CopiesIn([t EXCEPT !.ready = TRUE, !.ok = FALSE], tasks')
       > CopiesIn([t EXCEPT !.ready = TRUE, !.ok = FALSE], tasks)
  /\ Stepped(t)

\* C14: when the Store fails a query of message:send (the INSERT, the
\* conversation SELECT, the is_online SELECT or the delivered UPDATE), the
\* failing call changes no message row, and the handler then ends with
\* message:error to the sending socket as its only event: no message:new was
\* or is emitted for the request, nothing goes to the recipient, and no
\* message row changes.
C14_SendFailureSignalled ==
  [][\A t \in Running :
       /\ t.kind = "send" /\ QueryFails(t) => messages' = messages
       /\ t.kind = "send" /\ Failed(t) /\ Stepped(t) =>
            /\ emits' = {MessageError(t.sock)}
            /\ messages' = messages
            /\ t.msg # None => hist'[t.msg].inline = 0]_vars

\* C14 witness: message:error has just gone to a connected sender whose
\* message was inserted before a later query failed: the row is still in
\* state sent.
C14_Witness ==
  /\ \E e \in emits : e = MessageError(e.to) /\ e.to \in open
  /\ \E m \in DOMAIN messages : ~messages[m].is_delivered /\ hist[m].inline = 0

AuthenticationError(s) ==
  Ev("authentication_error", "socket", s, None, None, None, {}, "")

\* C15: authenticate with a token that jwt.verify rejects sends
\* authentication_error to the socket and nothing else: connectedUsers,
\* userSockets, userHeartbeats and the users table are unchanged, the socket
\* is registered no more than before, no handler is left running (no replay)
\* and no user_status_change is emitted.
C15_InvalidTokenRejected ==
  [][\A s \in open :
       AuthenticateInvalid(s) =>
         /\ emits' = {AuthenticationError(s)}
         /\ connectedUsers' = connectedUsers
         /\ userSockets' = userSockets
         /\ userHeartbeats' = userHeartbeats
         /\ users' = users
         /\ tasks' = tasks
         /\ \A e \in emits' : e.ev # "user_status_change"]_vars

\* C15 witness: an unregistered socket has just been sent
\* authentication_error while user 1 is registered on another socket.
C15_Witness ==
  \E s \in open :
    /\ emits = {AuthenticationError(s)}
    /\ userSockets[s] = None
    /\ connectedUsers[1] \in open \ {s}
    /\ userSockets[connectedUsers[1]] = 1

\* C16: a heartbeat on a socket userSockets holds no user for changes no
\* registry map, no heartbeat timestamp and no Store row, starts no handler
\* and emits nothing.  On a registered socket it sets the heartbeat timestamp
\* of the socket's user and nothing else in the registry, and its UPDATE
\* changes last_seen of that user and nothing else in the Store.
C16_HeartbeatOnlyIfRegistered ==
  [][/\ \A s \in open :
          Heartbeat(s) =>
            /\ connectedUsers' = connectedUsers
            /\ userSockets' = userSockets
            /\ store' = store
            /\ emits' = {}
            /\ IF userSockets[s] = None
                 THEN userHeartbeats' = userHeartbeats /\ tasks' = tasks
                 ELSE /\ HbGet(userHeartbeats', userSockets[s]) = now
                      /\ \A v \in Users \ {userSockets[s]} :
                           HbGet(userHeartbeats', v) = HbGet(userHeartbeats, v)
     /\ \A t \in Running :
          t.kind = "hb" /\ Stepped(t) =>
            /\ registry' = registry
            /\ messages' = messages
            /\ emits' = {}
            /\ \A v \in Users :
                 /\ users'[v].is_online = users[v].is_online
                 /\ v # t.user => users'[v] = users[v]]_vars

\* C16 witness: a heartbeat of a registered socket has set its user's
\* timestamp and awaits its UPDATE, while another connected socket is
\* unregistered.
C16_Witness ==
  /\ \E t \in Running :
       /\ t.kind = "hb" /\ Awaiting(t, "touch")
       /\ userSockets[t.sock] = t.user
       /\ HbGet(userHeartbeats, t.user) = now
  /\ \E s \in open : userSockets[s] = None

\* A connected socket the sweep has evicted: where no socket disconnects and
\* every client has one socket, it is a socket that was registered (its
\* client's users row was written) and is not registered any more.
Evicted(s) ==
  /\ s \in open
  /\ userSockets[s] = None
  /\ users[ClientOf(s)].last_seen # 0
  /\ ~\E t \in Running : t.sock = s /\ t.kind = "auth"

\* An event of its client arrives on socket s.
EventOn(s) ==
  \/ Heartbeat(s)
  \/ AppStateChange(s, "background")
  \/ TypingStart(s, 1, ClientOf(s))
  \/ TypingStop(s, 1, ClientOf(s))
  \/ SendMessage(s, 1, ClientOf(s))
  \/ ReadMessages(s, 1, ClientOf(s))

\* C17: an event (heartbeat, app_state_change, typing:start, typing:stop,
\* message:send, message:read) arriving on a socket the sweep has evicted is
\* ignored: the registry, the typing entries and the Store are unchanged,
\* no handler is left running and nothing is emitted.
C17_EvictedSocketIgnored ==
  [][\A s \in open :
       Evicted(s) /\ EventOn(s) =>
         /\ registry' = registry
         /\ userTypingStatus' = userTypingStatus
         /\ store' = store
         /\ tasks' = tasks
         /\ emits' = {}]_vars

\* The step in which the replay pass of task t is over: the caller goes on
\* to sendUpdatedConversationData.
ReplayEnds(t) ==
  /\ t.kind \in {"auth", "app"}
  /\ t.pc \in {"pending", "deliver"}
  /\ t.ready
  /\ Stepped(t)
  /\ CopiesIn(AfterReplay(t), tasks') > CopiesIn(AfterReplay(t), tasks)

\* C18: a failed UPDATE for one row of the replay pass does not stop the
\* pass: when the pass is over, every other row its SELECT returned is
\* delivered in the Store.
C18_FailureIsolated ==
  [][\A t \in Running :
       ReplayEnds(t) /\ t.pc = "deliver" =>
         \A k \in DOMAIN t.rows :
           k # t.i \/ t.ok => messages'[t.rows[k]].is_delivered]_vars

\* The step in which the disconnect handler t, its UPDATE answered or
\* failed, comes to its end.
DisconnectEnds(t) == t.kind = "disc" /\ t.ready /\ Stepped(t)

\* The step in which authenticate on socket s supersedes another socket of
\* user 1.
Supersedes(s) == Authenticate(s, 1) /\ connectedUsers[1] \notin {None, s}

\* C19: an authenticate that ends with 'authenticated' broadcasts
\* user_status_change isOnline true for its user; every disconnect handler
\* of a registered socket and every eviction by the sweep broadcasts
\* isOnline false; a supersession emits no user_status_change.
C19_PresenceBroadcast ==
  [][/\ \A t \in Running :
          /\ AuthenticateEnds(t) => StatusChange(t.user, TRUE) \in emits'
          /\ DisconnectEnds(t) => StatusChange(t.user, FALSE) \in emits'
          /\ Evicts(t) => StatusChange(t.user, FALSE) \in emits'
     /\ \A s \in open :
          Supersedes(s) => \A e \in emits' : e.ev # "user_status_change"]_vars

\* The step in which the Store executes the UPDATE the disconnect handler t
\* awaits.
DisconnectWrites(t) ==
  /\ t.kind = "disc" /\ Awaiting(t, "offline")
  /\ Stepped(t)
  /\ CopiesIn([t EXCEPT !.ready = TRUE], tasks')
       > CopiesIn([t EXCEPT !.ready = TRUE], tasks)

\* C20: the disconnect handler of a registered socket has the user marked
\* offline by its UPDATE and ends with the user out of connectedUsers, the
\* socket out of userSockets and the user out of userHeartbeats; the
\* disconnect of an unregistered socket changes no registry map, no typing
\* entry and no Store row, starts no handler and emits nothing.
C20_DisconnectUnregisters ==
  [][/\ \A t \in Running :
          /\ DisconnectWrites(t) => ~users'[t.user].is_online
          /\ DisconnectEnds(t) =>
               /\ t.ok
               /\ connectedUsers'[t.user] = None
               /\ userSockets'[t.sock] = None
               /\ t.user \notin HbUsers(userHeartbeats')
     /\ \A s \in open :
          userSockets[s] = None /\ Disconnect(s) =>
            /\ registry' = registry
            /\ userTypingStatus' = userTypingStatus
            /\ store' = store
            /\ tasks' = tasks
            /\ emits' = {}]_vars

\* C21: while no handler is in progress, every user with an entry in
\* userTypingStatus has a registered connection: connectedUsers holds a
\* socket for it that userSockets maps back to it.
C21_TypingOnlyWhileRegistered ==
  tasks = EmptyBag =>
    \A u \in Users :
      userTypingStatus[u] # None =>
        /\ connectedUsers[u] # None
        /\ userSockets[connectedUsers[u]] = u

\* The peers of u: the users sharing a conversation with it.
PeersOf(u) == {OtherUser(c, u) : c \in ConvsOf(u)}

\* The step in which callback t of the fan-out, its name query answered,
\* emits user_typing_status for peer t.res.
FanoutEmits(t) == t.kind = "temit" /\ Answered(t, "name") /\ Stepped(t)

\* C22: typing:stop removes the user's typing entry; a step of the fan-out
\* of typing:start or typing:stop that emits for a peer holding a
\* registered connection delivers user_typing_status, with that isTyping, to
\* the connected socket registered for the peer; no socket of a user that
\* shares no conversation with the typing user is sent the event.
C22_TypingFanout ==
  [][/\ \A s \in open : TypingStop(s, 1, 1) => userTypingStatus'[1] = None
     /\ \A t \in Running :
          FanoutEmits(t) /\ connectedUsers[t.res] # None =>
            \E e \in emits' :
              /\ e.ev = "user_typing_status"
              /\ e.user = t.user /\ e.status = t.state
              /\ e.to = connectedUsers[t.res] /\ e.to \in open
     /\ \A e \in emits' :
          e.ev = "user_typing_status" /\ e.to \in DOMAIN userSockets =>
            userSockets[e.to] \in PeersOf(e.user) \cup {None}]_vars

\* C23: userTypingStatus holds one conversation per user at most; a
\* typing:start of user u for conversation c leaves c as the entry of u,
\* whatever entry u had, and the entries of the other users as they were;
\* no other step gives a user a new conversation.
C23_TypingEntryReplaced ==
  [][/\ \A s \in open, c \in ConvIds :
          userSockets[s] # None /\ TypingStart(s, c, userSockets[s]) =>
            /\ userTypingStatus'[userSockets[s]] = c
            /\ \A v \in Users \ {userSockets[s]} :
                 userTypingStatus'[v] = userTypingStatus[v]
     /\ \A u \in Users :
          userTypingStatus'[u] \notin {None, userTypingStatus[u]} =>
            \E s \in open : TypingStart(s, userTypingStatus'[u], u)
     /\ DOMAIN userTypingStatus' = Users
     /\ \A u \in Users : userTypingStatus'[u] \in ConvIds \cup {None}]_vars

\* C23 witness: user 2 started typing in conversation 1 (that fan-out is
\* still awaiting its query) and then in conversation 2, which is its entry.
C23_Witness ==
  /\ userTypingStatus[2] = 2
  /\ \E t \in Running :
       /\ t.kind = "typing" /\ t.user = 2 /\ t.conv = 1 /\ t.state = "start"
       /\ Awaiting(t, "peers")
  /\ \E t \in Running :
       /\ t.kind = "typing" /\ t.user = 2 /\ t.conv = 2 /\ t.state = "start"
       /\ Awaiting(t, "peers")

\* The step in which the Store executes the UPDATE of the users row that
\* app_state_change task t awaits.
AppWrites(t) ==
  /\ t.kind = "app" /\ ~t.ready /\ t.pc \in {"online", "offline"}
  /\ Stepped(t)
  /\ CopiesIn([t EXCEPT !.ready = TRUE], tasks')
       > CopiesIn([t EXCEPT !.ready = TRUE], tasks)

\* What no step of app_state_change may touch, and what it may broadcast.
AppFrame(t) ==
  /\ registry' = registry
  /\ userTypingStatus' = userTypingStatus
  /\ open' = open
  /\ \A e \in emits' :
       e.ev = "user_status_change" => e = StatusChange(t.user, t.state = "active")

\* C24 as claimed: app_state_change, whatever its state value, changes none
\* of connectedUsers, userSockets, userHeartbeats, userTypingStatus and
\* closes no socket; the handler runs for the user userSockets holds for
\* the socket; its UPDATE changes is_online of that user's row, true for
\* active and false for background and inactive, and nothing else in the
\* users table; a user_status_change it broadcasts carries that user and
\* that value.
C24_AppStateOnlyOnlineFlag ==
  [][/\ \A s \in open, state \in AppStates :
          AppStateChange(s, state) =>
            /\ registry' = registry /\ userTypingStatus' = userTypingStatus
            /\ open' = open /\ store' = store /\ emits' = {}
            /\ userSockets[s] = None \/ state = "resumed" => tasks' = tasks
            /\ \A t \in BagToSet(tasks') :
                 t.kind = "app" /\ CopiesIn(t, tasks') > CopiesIn(t, tasks)
                   => t.user = userSockets[s] /\ t.state = state
     /\ \A t \in Running :
          /\ t.kind = "app" /\ Stepped(t) => AppFrame(t)
          /\ AppWrites(t) =>
               users' = [users EXCEPT ![t.user].is_online = (t.state = "active")]]_vars

\* C24 amended: as claimed, except that the UPDATE of app_state_change sets
\* last_seen of the owning user's row along with is_online.
C24_AppStateOnlineAndLastSeen ==
  [][/\ \A s \in open, state \in AppStates :
          AppStateChange(s, state) =>
            /\ registry' = registry /\ userTypingStatus' = userTypingStatus
            /\ open' = open /\ store' = store /\ emits' = {}
            /\ userSockets[s] = None \/ state = "resumed" => tasks' = tasks
            /\ \A t \in BagToSet(tasks') :
                 t.kind = "app" /\ CopiesIn(t, tasks') > CopiesIn(t, tasks)
                   => t.user = userSockets[s] /\ t.state = state
     /\ \A t \in Running :
          /\ t.kind = "app" /\ Stepped(t) => AppFrame(t)
          /\ AppWrites(t) =>
               users' = [users EXCEPT
                           ![t.user] = [is_online |-> (t.state = "active"),
                                        last_seen |-> now]]]_vars

\* C24 witness: app_state_change 'background' of registered user 2 has just
\* broadcast the offline change: the Store row is offline while the registry
\* still holds the user's connected socket.
C24_Witness ==
  /\ emits = {StatusChange(2, FALSE)}
  /\ ~users[2].is_online
  /\ connectedUsers[2] \in open
  /\ userSockets[connectedUsers[2]] = 2
  /\ HbGet(userHeartbeats, 2) # None

\* A conversations_updated event goes to the socket registered for its user
\* and to no other, and every entry is a conversation of the user, listed
\* once, naming the counterpart.
SnapshotSound(e) ==
  /\ e.via = "to"
  /\ e.to = connectedUsers[e.user]
  /\ userSockets[e.to] = e.user
  /\ \A k \in DOMAIN e.snap :
       /\ e.snap[k].conversation_id \in ConvsOf(e.user)
       /\ e.snap[k].other_user_id = OtherUser(e.snap[k].conversation_id, e.user)
       /\ \A j \in DOMAIN e.snap :
            e.snap[j].conversation_id = e.snap[k].conversation_id => j = k

\* C25 as claimed: every conversations_updated goes only to the socket
\* registered for its user and lists exactly the conversations of that user,
\* one entry each, naming the counterpart.
C25_SnapshotExact ==
  [][\A e \in emits' :
       e.ev = "conversations_updated" =>
         /\ SnapshotSound(e)
         /\ {e.snap[k].conversation_id : k \in DOMAIN e.snap} = ConvsOf(e.user)]_vars

\* The step in which the Store answers the user lookup task t awaits.
UserLookupAnswered(t, t2) ==
  /\ t.kind \in {"auth", "app"} /\ Awaiting(t, "user")
  /\ Stepped(t)
  /\ t2 = [t EXCEPT !.ready = TRUE, !.snap = t2.snap]
  /\ CopiesIn(t2, tasks') > CopiesIn(t2, tasks)

\* C25 amended: every conversations_updated goes only to the socket
\* registered for its user and lists conversations of that user only, one
\* entry each, naming the counterpart; the lookups run over all
\* conversations of the user, and each answered lookup adds the entry of its
\* conversation: an entry is missing only if its user lookup failed.
C25_SnapshotOfAnsweredLookups ==
  [][/\ \A e \in emits' : e.ev = "conversations_updated" => SnapshotSound(e)
     /\ \A t \in Running :
          /\ t.kind \in {"auth", "app"} /\ t.pc = "user" =>
               t.rows = Ascending(ConvsOf(t.user))
          /\ \A t2 \in BagToSet(tasks') :
               UserLookupAnswered(t, t2) =>
                 /\ Len(t2.snap) = Len(t.snap) + 1
                 /\ \A k \in DOMAIN t.snap : t2.snap[k] = t.snap[k]
                 /\ t2.snap[Len(t2.snap)].conversation_id = t.rows[t.i]
                 /\ t2.snap[Len(t2.snap)].other_user_id
                      = OtherUser(t.rows[t.i], t.user)
          /\ t.kind \in {"auth", "app"} /\ t.pc = "user" /\ t.ready
             /\ Stepped(t) /\ t.i = Len(t.rows) /\ connectedUsers[t.user] # None =>
               \E e \in emits' :
                 /\ e.ev = "conversations_updated" /\ e.user = t.user
                 /\ e.snap = t.snap]_vars

\* C25 witness: user 2, in two conversations, has just been sent a snapshot
\* with both of them on its registered, connected socket.
C25_Witness ==
  \E e \in emits :
    /\ e.ev = "conversations_updated" /\ e.user = 2
    /\ Len(e.snap) = 2
    /\ e.to \in open /\ e.to = connectedUsers[2]

\* C26: while no handler and no sweep is in progress, the Store's is_online
\* flag of a user is true exactly when the registry holds a connection for
\* the user: connectedUsers has a socket for it, and userSockets a socket
\* mapped to it.
C26_StoreMirrorsRegistry ==
  tasks = EmptyBag =>
    \A u \in Users :
      /\ users[u].is_online <=> connectedUsers[u] # None
      /\ users[u].is_online <=> RegisteredAs(userSockets, u) # {}

\* The step in which message:send task t, having read is_online = true,
\* issues the delivered UPDATE.
IssuesDelivered(t) ==
  /\ t.kind = "send" /\ Answered(t, "isonline") /\ t.online
  /\ Stepped(t)
  /\ CopiesIn(Issue(t, "deliver"), tasks') > CopiesIn(Issue(t, "deliver"), tasks)

\* C27: message:send issues the delivered UPDATE only while the recipient
\* has a registered connection: connectedUsers holds a socket for it at
\* that moment.
C27_DeliveredOnlyIfRegistered ==
  [][\A t \in Running :
       IssuesDelivered(t) => connectedUsers[Recipient(t)] # None]_vars

\* C28: when the sweep removes a user's entries after its UPDATE, that user
\* still has the heartbeat entry the sweep judged stale: the entry is there
\* and is older than the timeout at the sweep's time; a user unregistered,
\* re-registered or refreshed during the UPDATE is left alone.
C28_SweepEvictsOnlyStale ==
  [][\A t \in Running :
       Evicts(t) =>
         /\ HbPos(userHeartbeats, t.user) # 0
         /\ t.t0 - HbGet(userHeartbeats, t.user) > HEARTBEAT_TIMEOUT]_vars

\* C29: every event sent with io.to(socketId) goes to a socket id that
\* connectedUsers holds for some user at the moment of the emit: never to an
\* id that was unregistered or superseded since it was looked up.
C29_EmitToRegisteredSocket ==
  [][\A e \in emits' :
       e.via = "to" /\ e.to # None =>
         \E u \in Users : connectedUsers[u] = e.to]_vars

----------------------------------------------------------------------------
(* The sweep against the clock *)

\* The granularity of the clock: half the sweep interval, so that heartbeats
\* fall on and between the timer's expiries.
ClockStep == 5000

\* Sessions in which every Store call is answered before the clock moves
\* on: time passes only while no handler is suspended.
NextTimed ==
  \/ nextSock <= MaxSessionSockets /\ Connect
  \/ \E s \in open : InFlight < MaxInFlight /\ Authenticate(s, 1)
  \/ \E s \in open : InFlight < MaxInFlight /\ Heartbeat(s)
  \/ \E s \in open : InFlight < MaxInFlight /\ Disconnect(s)
  \/ InFlight < MaxInFlight /\ SweepStart
  \/ tasks = EmptyBag /\ now < MaxClock /\ Tick(ClockStep)
  \/ \E t \in Running : DbSetOnline(t)
  \/ \E t \in Running : DbSetOffline(t)
  \/ \E t \in Running : DbTouchLastSeen(t)
  \/ \E t \in Running : DbSelectPending(t)
  \/ \E t \in Running : DbSelectConversationsOf(t)
  \/ \E t \in Running : DbSelectUser(t)
  \/ \E t \in Running : ReplayStart(t)
  \/ \E t \in Running : ReplayLoop(t)
  \/ \E t \in Running : SnapshotLoop(t)
  \/ \E t \in Running : SnapshotNext(t)
  \/ \E t \in Running : DisconnectCleanup(t)
  \/ \E t \in Running : SweepEvict(t)

SpecTimed == Init /\ [][NextTimed]_vars

\* C30: with the sweep every SWEEP_INTERVAL and Store calls answered before
\* the clock moves, a heartbeat entry last set at t is gone once the sweep
\* of time t + HEARTBEAT_TIMEOUT + SWEEP_INTERVAL has run, and the sweep
\* removes no entry while now - lastHeartbeat <= HEARTBEAT_TIMEOUT.
C30_SweepDeadline ==
  [][/\ \A p \in DOMAIN userHeartbeats :
          now - userHeartbeats[p].ts >= HEARTBEAT_TIMEOUT + SWEEP_INTERVAL =>
            sweepDue \/ \E t \in Running : t.kind = "sweep"
     /\ \A t \in Running :
          Evicts(t) /\ HbPos(userHeartbeats, t.user) # 0 =>
            now - HbGet(userHeartbeats, t.user) > HEARTBEAT_TIMEOUT]_vars

----------------------------------------------------------------------------
(* Read receipts *)

\* C31: message:read broadcasts { conversationId, userId } to all clients
\* exactly when its UPDATE returned at least one row: a handler that ends
\* after marking messages emits the broadcast, and no message:read event,
\* targeted or global, is emitted by a handler whose UPDATE returned none.
C31_ReadBroadcastIffTransition ==
  [][/\ \A t \in Running :
          t.kind = "read" /\ Answered(t, "conv") /\ Stepped(t) =>
            ReadBroadcast(t) \in emits'
     /\ \A e \in emits' :
          e.ev = "message:read" =>
            \E t \in Running :
              t.kind = "read" /\ t.rows # <<>> /\ Stepped(t)]_vars

----------------------------------------------------------------------------
(* The stored flags of a message *)

\* The whole life of a conversation: clients 1 and 2 authenticate, send and
\* read under their registered ids, change app state and disconnect, one
\* handler at a time; the clock moves between handlers and the sweep evicts.
NextLifecycle ==
  \/ nextSock <= MaxChatSockets /\ Connect
  \/ \E s \in open :
       /\ InFlight < MaxAccessInFlight /\ userSockets[s] = None
       /\ Authenticate(s, ClientOf(s))
  \/ \E s \in open :
       InFlight < MaxAccessInFlight /\ userSockets[s] = 2 /\ Disconnect(s)
  \/ \E s \in open, state \in {"active", "background"} :
       /\ InFlight < MaxAccessInFlight /\ userSockets[s] = 2
       /\ AppStateChange(s, state)
  \/ \E s \in open :
       /\ InFlight < MaxAccessInFlight /\ Sent < MaxMessages
       /\ userSockets[s] = 1
       /\ SendMessage(s, 1, 1)
  \/ \E s \in open :
       /\ InFlight < MaxAccessInFlight /\ Len(messages) > 0
       /\ userSockets[s] = 2
       /\ ReadMessages(s, 1, 2)
  \/ InFlight < MaxAccessInFlight /\ SweepStart
  \/ tasks = EmptyBag /\ now < MaxClock /\ Tick(SWEEP_INTERVAL)
  \/ \E t \in Running : DbSetOnline(t)
  \/ \E t \in Running : DbSetOffline(t)
  \/ \E t \in Running : DbSelectPending(t)
  \/ \E t \in Running : DbMarkDelivered(t)
  \/ \E t \in Running : DbSelectConversationsOf(t)
  \/ \E t \in Running : DbSelectUser(t)
  \/ \E t \in Running : DbInsertMessage(t)
  \/ \E t \in Running : DbSelectConversation(t)
  \/ \E t \in Running : DbSelectOnline(t)
  \/ \E t \in Running : DbRefetchMessage(t)
  \/ \E t \in Running : DbMarkRead(t)
  \/ \E t \in Running : ReplayStart(t)
  \/ \E t \in Running : ReplayLoop(t)
  \/ \E t \in Running : ReplayNotify(t)
  \/ \E t \in Running : SnapshotLoop(t)
  \/ \E t \in Running : SnapshotNext(t)
  \/ \E t \in Running : DisconnectCleanup(t)
  \/ \E t \in Running : AppWentOffline(t)
  \/ \E t \in Running : SweepEvict(t)
  \/ \E t \in Running : SendLookup(t)
  \/ \E t \in Running : SendCheckOnline(t)
  \/ \E t \in Running : SendDecide(t)
  \/ \E t \in Running : SendRefetch(t)
  \/ \E t \in Running : SendNotify(t)
  \/ \E t \in Running : ReadLookup(t)
  \/ \E t \in Running : ReadNotify(t)

SpecLifecycle == Init /\ [][NextLifecycle]_vars

\* C32: no step lowers a stored flag of a message: is_delivered, once true,
\* and is_read, once true, are true in the next state, whichever handler or
\* Store statement takes the step.
C32_FlagsNeverLowered ==
  [][\A m \in DOMAIN messages :
       /\ messages[m].is_delivered => messages'[m].is_delivered
       /\ messages[m].is_read => messages'[m].is_read]_vars

\* C32 (case): a message delivered and read whose recipient has since been
\* unregistered and set offline, with no handler left in progress.
C32_Witness ==
  /\ tasks = EmptyBag
  /\ \E m \in DOMAIN messages :
       /\ messages[m].is_delivered /\ messages[m].is_read
       /\ hist[m].writes >= 1
       /\ connectedUsers[2] = None /\ ~users[2].is_online

----------------------------------------------------------------------------
(* The registry at rest *)

\* Registration: any socket authenticates as user 1 or user 2, any number of
\* times, sends heartbeats and disconnects; the clock moves between handlers
\* and the sweep evicts.  No Store call fails.
NextRegistry ==
  \/ nextSock <= MaxSessionSockets /\ Connect
  \/ \E s \in open, u \in {1, 2} : InFlight < MaxInFlight /\ Authenticate(s, u)
  \/ \E s \in open : InFlight < MaxInFlight /\ Heartbeat(s)
  \/ \E s \in open : InFlight < MaxInFlight /\ Disconnect(s)
  \/ InFlight < MaxInFlight /\ SweepStart
  \/ tasks = EmptyBag /\ now < MaxClock /\ Tick(SWEEP_INTERVAL)
  \/ \E t \in Running : DbSetOnline(t)
  \/ \E t \in Running : DbSetOffline(t)
  \/ \E t \in Running : DbTouchLastSeen(t)
  \/ \E t \in Running : DbSelectPending(t)
  \/ \E t \in Running : DbSelectConversationsOf(t)
  \/ \E t \in Running : DbSelectUser(t)
  \/ \E t \in Running : ReplayStart(t)
  \/ \E t \in Running : ReplayLoop(t)
  \/ \E t \in Running : SnapshotLoop(t)
  \/ \E t \in Running : SnapshotNext(t)
  \/ \E t \in Running : DisconnectCleanup(t)
  \/ \E t \in Running : SweepEvict(t)

SpecRegistry == Init /\ [][NextRegistry]_vars

\* C33: with no handler in progress connectedUsers and userSockets are exact
\* inverses of each other, and userHeartbeats has exactly the users of
\* connectedUsers as its keys.
C33_RegistryConsistent ==
  tasks = EmptyBag =>
    /\ \A u \in Users : \A s \in DOMAIN userSockets :
         connectedUsers[u] = s <=> userSockets[s] = u
    /\ \A u \in Users : connectedUsers[u] # None =>
         connectedUsers[u] \in DOMAIN userSockets
    /\ \A u \in Users : HbPos(userHeartbeats, u) # 0 <=> connectedUsers[u] # None

\* The socket of user t.user that a disconnect task t of another socket
\* finds registered.
OtherRegistered(t) ==
  t.kind = "disc" /\ connectedUsers[t.user] \notin {None, t.sock}

\* C34: the disconnect handler of socket S leaves another socket S' of the
\* same user alone: its UPDATE does not set the user offline while S' is
\* registered, and its cleanup removes neither connectedUsers[U] = S' nor
\* U's heartbeat entry.
C34_DisconnectSparesOtherSocket ==
  [][\A t \in Running :
       /\ OtherRegistered(t) /\ Awaiting(t, "offline") /\ Stepped(t) =>
            users'[t.user].is_online = users[t.user].is_online
       /\ OtherRegistered(t) /\ Answered(t, "offline") /\ Stepped(t) =>
            /\ connectedUsers'[t.user] = connectedUsers[t.user]
            /\ HbGet(userHeartbeats', t.user) = HbGet(userHeartbeats, t.user)]_vars

\* C35: user_status_change { isOnline: false } is broadcast for user u in
\* exactly the steps that take u out of connectedUsers: one broadcast per
\* transition from registered to unregistered, none without a transition.
C35_OneOfflineBroadcastPerTransition ==
  [][\A u \in Users :
       StatusChange(u, FALSE) \in emits' <=>
         connectedUsers[u] # None /\ connectedUsers'[u] = None]_vars

----------------------------------------------------------------------------
(* Replay against the online flag *)

\* C36: with no handler in progress, no message is left with is_delivered
\* false while the Store's is_online flag of its recipient is true.
C36_NoSentWhileOnline ==
  tasks = EmptyBag =>
    \A m \in DOMAIN messages :
      ~messages[m].is_delivered =>
        ~users[OtherUser(messages[m].conversation_id,
                         messages[m].sender_id)].is_online

\* C36 (case): at rest, a message that the send handler left undelivered
\* has been picked up by a replay pass and its recipient is online in the
\* Store.
C36_Witness ==
  /\ tasks = EmptyBag
  /\ \E m \in DOMAIN messages :
       /\ messages[m].is_delivered
       /\ hist[m].inline = 0 /\ hist[m].writes = 1
       /\ users[OtherUser(messages[m].conversation_id,
                          messages[m].sender_id)].is_online

\* C37: no message:delivered for a message reaches a connected socket once
\* a message:read listing that message has reached one: the delivery
\* notification of a message comes before its read notification.
C37_DeliveredBeforeRead ==
  [][\A e \in emits' :
       e.ev = "message:delivered" /\ e.to \in open /\ e.msg \in DOMAIN hist =>
         ~hist[e.msg].read]_vars

----------------------------------------------------------------------------
(* Acting for another user *)

\* C38: a socket acts only for the user it is registered as: a Store
\* statement of message:send or message:read that changes messages belongs to
\* a handler whose payload user is the user registered for its socket, and
\* a typing entry changes only for the user registered for some socket.
C38_ActsOnlyForRegisteredUser ==
  [][/\ \A t \in Running :
          /\ t.kind \in {"send", "read"}
          /\ Stepped(t)
          /\ messages' # messages
          => userSockets[t.sock] = t.user
     /\ \A u \in Users :
          userTypingStatus'[u] # userTypingStatus[u] =>
            \E s \in DOMAIN userSockets : userSockets[s] = u]_vars

\* C39: a socket that is sent authentication_error is registered neither in
\* userSockets nor in connectedUsers when the event is sent.
C39_ErrorMeansUnregistered ==
  [][\A s \in DOMAIN userSockets :
       AuthenticationError(s) \in emits' =>
         /\ userSockets'[s] = None
         /\ \A u \in Users : connectedUsers'[u] # s]_vars

\* C40: with no handler in progress, a connected socket that userSockets
\* holds for user u, and whose user's heartbeat entry is within the timeout,
\* is the socket connectedUsers holds for u: the user is reachable on it.
C40_HeartbeatingUserReachable ==
  tasks = EmptyBag =>
    \A s \in open :
      LET u == userSockets[s]
      IN /\ u # None
         /\ HbPos(userHeartbeats, u) # 0
         /\ now - HbGet(userHeartbeats, u) <= HEARTBEAT_TIMEOUT
         => connectedUsers[u] = s

====
